---- MODULE Spec2Model ----
(***************************************************************************)
(* Model of the phoenix service lifecycle: the serviceManager's registry,  *)
(* its concurrent Start, its bounded-time Stop, its Reload fan-out and the *)
(* multiError aggregator (src/unnamed/part_000).                           *)
(*                                                                         *)
(* A registered service is identified by its index in the registry.  What *)
(* a service does inside OnStart, Start, OnStop, Stop and Reload is not    *)
(* part of this repository: each call returns a result chosen by the       *)
(* environment, a blocking Start returns whenever the environment lets it, *)
(* and a Stop may never return at all.                                     *)
(***************************************************************************)
EXTENDS Integers, Sequences, FiniteSets, TLC

\* Largest number of services the bootstrap registers.
MaxUnits == 3

Units == 1..MaxUnits

\* Largest number of callbacks the bootstrap registers.
MaxCallbacks == 3

\* Largest number of services registered when the whole of runtime.Start or
\* runtime.Run is explored.
MaxRtUnits == 2

\* Largest number of signals sent to the process.
MaxSignals == 2

\* Largest number of goroutines that call AddError on one multiError.
MaxWriters == 3

\* Largest number of AddError calls made on one multiError.
MaxAdds == 3

\* Largest number of calls of server.Run on one server.
MaxRuns == 3

\* make(chan os.Signal, 3)
SigCap == 3

\* ------------------------------------------------------------------ errors
\* An error value is its message; Nil is Go's nil error.
Nil == "<nil>"

ErrNoServices == "No services were registered"

ErrTimeout == "Timed out waiting for service to stop"

ErrConfig == "config: load failed"

\* The errors a service's own code returns, one message per service and call.
OnStartErr(u) == "OnStart failed: service " \o ToString(u)

StartErr(u) == "Start failed: service " \o ToString(u)

StopErr(u) == "Stop failed: service " \o ToString(u)

ReloadErr(u) == "Reload failed: service " \o ToString(u)

\* The error the start half of callback c returns.
CallbackErr(c) == "start failed: callback " \o ToString(c)

\* An error the runFunc returns of its own, without calling runtime.Start.
ErrBootstrap == "runFunc: setup failed"

\* The error of newContainer (loading the configuration, opening the log).
ErrContainer == "newContainer failed"

ErrAlreadyRunning == "server is already running"

\* The error value a runFunc panics with, when it panics with an error.
ErrPanic == "runFunc: panic"

\* fmt.Errorf("%v", recovered) for the value a runFunc panics with that is no error.
ErrPanicValue == "runFunc: panic value"

\* The error recover() returns for panic(nil) from Go 1.21 on (*runtime.PanicNilError).
ErrPanicNil == "panic called with nil argument (obsolete)"

\* The error passed to the n-th AddError call that is given one.
AddedErr(n) == "error " \o ToString(n)

\* The non-nil value AsError returns is the aggregator object itself: a
\* reference to the list, whose message is computed by Error when asked.
FaultsRef == "*multiError(faults)"

FailedToReloadRef == "*multiError(failedToReload)"

AggRef == "*multiError(stop)"

\* ------------------------------------------------------------- multiError
\* Faulty variant of AddError: the append is not protected by the lock, and an append
\* that races with another one overwrites its entry instead of following it.
AddErrorUnlocked(errors, err) ==
    IF err = Nil THEN errors
    ELSE IF Len(errors) = 0 THEN <<err>>
    ELSE [errors EXCEPT ![Len(errors)] = err]

\* multiError.AddError: nil is dropped, anything else is appended (the lock
\* makes the append one atomic step).
AddError(errors, err) == IF err # Nil THEN Append(errors, err) ELSE errors

RECURSIVE Join(_, _)
\* strings.Join
Join(msgs, sep) ==
    IF Len(msgs) = 0 THEN ""
    ELSE IF Len(msgs) = 1 THEN msgs[1]
    ELSE msgs[1] \o sep \o Join(Tail(msgs), sep)

\* Faulty variant of Error: only the first collected message is reported.
ErrorFirstOnly(errors) == IF Len(errors) = 0 THEN "" ELSE errors[1]

\* multiError.Error: the collected messages, in list order, joined by newlines.
Error(errors) == Join(errors, "\n")

\* Faulty variant of AsError: the aggregator is returned even when it is empty.
AsErrorNeverNil(errors, ref) == ref

\* multiError.AsError: nil for an empty list, else the aggregator (ref).
AsError(errors, ref) == IF Len(errors) = 0 THEN Nil ELSE ref

\* ----------------------------------------------------------------- config
\* An option is named by its section and its name. Option names are taken in
\* lower case, as goconf keeps them, and no option is put in goconf's section
\* "default".
Sections == {"a", "b"}

Options == {"x"}

Keys == Sections \X Options

\* The files config.load reads: the one at path, at defaultPath, at overridePath.
FileNames == {"main", "defaults", "overrides"}

\* The paths given to the server for them.
PathOf(f) == f \o ".conf"

\* In a ConfigFile: the option is not there.
NoOption == "<no option>"

\* A *conf.ConfigFile that is nil: there is no option to ask it for.
NilFile == <<>>

IsNil(file) == DOMAIN file = {}

\* Every value tells where it comes from: the file that holds it ...
ValueIn(f) == "value in " \o PathOf(f)

\* ... or the call that was given it.
DefaultValue == "value given to DefaultOption"

OverrideValue == "value given to OverrideOption"

\* What a file may hold.
Contents(f) == [Keys -> {ValueIn(f), NoOption}]

\* conf.NewConfigFile(): no option.
NewConfigFile == [k \in Keys |-> NoOption]

\* ConfigFile.AddOption: the option is created or its value replaced.
AddOption(file, k, value) == [file EXCEPT ![k] = value]

\* ConfigFile.HasOption
HasOption(file, k) == file[k] # NoOption

\* newConfig(): no path, three ConfigFiles without options.
newConfig ==
    [path |-> "", defaultPath |-> "", overridePath |-> "",
     ConfigFile |-> NewConfigFile, Defaults |-> NewConfigFile, Overrides |-> NewConfigFile]

\* The first loop of load: every option of defaults the file has not is added
\* to the file.
WithDefaults(file, defaults) ==
    [k \in Keys |-> IF HasOption(defaults, k) /\ ~HasOption(file, k) THEN defaults[k] ELSE file[k]]

\* The second loop of load: every option of overrides is added to the file,
\* replacing the value the file has.
WithOverrides(file, overrides) ==
    [k \in Keys |-> IF HasOption(overrides, k) THEN overrides[k] ELSE file[k]]

\* conf.ReadConfigFile of file f: nil and an error when the file cannot be
\* read, else what the file holds.
ReadConfigFile(d, f, unreadable) == IF f \in unreadable THEN NilFile ELSE d[f]

\* config.load() on the config c, with the files as they are on the disk d,
\* those of unreadable failing to be read: the config as load leaves it, and
\* the error load returns. Each ReadConfigFile assigns its result to the field
\* before err is tested.
load(c, d, unreadable) ==
    LET c1 == [c EXCEPT !.ConfigFile = IF c.path # "" THEN ReadConfigFile(d, "main", unreadable)
                                       ELSE NewConfigFile]
        c2 == IF c.defaultPath # ""
              THEN [c1 EXCEPT !.Defaults = ReadConfigFile(d, "defaults", unreadable)]
              ELSE c1
        c3 == IF c.overridePath # ""
              THEN [c2 EXCEPT !.Overrides = ReadConfigFile(d, "overrides", unreadable)]
              ELSE c2
    IN  IF c.path # "" /\ IsNil(c1.ConfigFile) THEN [config |-> c1, err |-> ErrConfig]
        ELSE IF c.defaultPath # "" /\ IsNil(c2.Defaults) THEN [config |-> c2, err |-> ErrConfig]
        ELSE IF c.overridePath # "" /\ IsNil(c3.Overrides) THEN [config |-> c3, err |-> ErrConfig]
        ELSE [config |-> [c3 EXCEPT !.ConfigFile =
                              WithOverrides(WithDefaults(c3.ConfigFile, c3.Defaults), c3.Overrides)],
              err |-> Nil]

\* --------------------------------------------------------------- Metadata
\* Faulty variant of Name: an empty name is returned as it is.
NameAsGiven(n) == n

\* container.Name
Name(n) == IF n = "" THEN "app" ELSE n

\* container.Version
Version(v) == IF v = "" THEN "unreleased" ELSE v

\* The names and versions a server is created with.
Strings == {"", "app", "unreleased", "spreed-app", "0.9.4b1", "phoenix"}

\* ------------------------------------------------------------------ state
VARIABLES
    services,        \* serviceManager.services: the capabilities of each service
    calls,           \* observation: how often each method of each service was invoked
    rets,            \* observation: what each method of each service returned last
    stopOrder,       \* observation: the services in the order their Stop was invoked
    \* serviceManager.Start
    startPc,         \* "idle", "spawn" (the for loop), "select", "returned"
    startI,          \* the for loop's position
    running,         \* the WaitGroup counter
    failClosed,      \* close(fail) has happened
    doneClosed,      \* close(done) has happened
    startErr,        \* what Start returned
    task,            \* per service: where its goroutine of Start is
    taskErr,         \* per service: the error its goroutine sends on fail
    crashed,         \* the process died of an unrecovered panic
    \* serviceManager.Stop
    stopPc,          \* "idle", "loop", "wait", "returned"
    stopI,           \* the for loop's position (counts down)
    stopping,        \* the WaitGroup counter
    stopper,         \* per service: the goroutine that calls service.Stop()
    fault,           \* per service: the buffered channel (capacity 1)
    await,           \* per service: the goroutine that selects on fault / time.After
    awaitErr,        \* per service: that goroutine's err
    faults,          \* the multiError's list
    stopErr,         \* what Stop returned
    stops,           \* observation: how often serviceManager.Stop was called
    \* serviceManager.Reload
    reloadPc,        \* "idle", "loop", "returned"
    reloadI,         \* the for loop's position
    failedToReload,  \* the multiError's list
    reloadErr,       \* what Reload returned
    \* runtime.Callback, runtime.Start
    callbacks,       \* runtime.callbacks: the (start, stop) pairs, in registration order
    cbCalls,         \* observation: how often each half of each callback was invoked
    cbRets,          \* observation: what the start half of each callback returned
    cbStops,         \* observation: the callbacks in the order their stop half was invoked
    rtPc,            \* "idle", "callbacks" (the for loop), "manager", "unwind", "returned"
    cbI,             \* the for loop's position
    stopCallbacks,   \* the callbacks whose start succeeded, most recent first
    unwindI,         \* the deferred loop's position in stopCallbacks
    rtErr,           \* what runtime.Start returns
    \* server.Run, runtime.Run
    serverPc,        \* "idle", "Run", "returned"
    currentRuntime,  \* server.currentRuntime # nil
    serverErr,       \* what server.Run returned
    panicValue,      \* the value the runFunc panicked with: "-" (no panic), "error", "value", "nil"
    logged,          \* what was written to the container's log by the panic handler
    logClosed,       \* container.Close() has been called (on the current container)
    runs,            \* observation: how many calls of server.Run were made before this one
    history,         \* observation: what the earlier calls of server.Run returned
    serverStopPc,    \* where the call of server.Stop is
    serverStopErr,   \* what server.Stop returned
    runPc,           \* "idle", "runFunc", "returned"
    runErr,          \* what runtime.Run returned
    bootPc,          \* the runFunc: "idle", "setup", "Start", "returned"
    bootErr,         \* what the runFunc returned
    notified,        \* signal.Notify is in effect (until signal.Stop)
    sig,             \* the channel sig (capacity SigCap)
    delivered,       \* how many signals the process has been sent
    sigPc,           \* the goroutine: "none", "range", "Stop", "Reload", "ended"
    sigCur,          \* the signal s it is handling
    sigErr,          \* the err of its runtime.Reload()
    abandoned,       \* per service: the goroutines of earlier Stops still to call
                     \* service.Stop() ("spawned") or inside it ("Stop")
    \* a multiError and the goroutines that use it
    aggErrors,       \* multiError.errors
    mutex,           \* the embedded sync.Mutex: 0 when unlocked, else the writer holding it
    wPc,             \* per writer, inside AddError: "idle", "Lock", "load", "store", "Unlock"
    wErr,            \* per writer: the err of its call
    wSlice,          \* per writer: the value of stop.errors its append has read
    started,         \* observation: the non-nil errors of the calls made, in call order
    arrival,         \* observation: the same, in the order the calls got the lock
    completed,       \* observation: the same, in the order the calls returned
    nilAdds,         \* observation: how many calls were given nil
    asErr,           \* what the last AsError returned
    asSeen,          \* observation: arrival when AsError was called
    message,         \* what the last Error returned
    msgSeen,         \* observation: arrival when Error was called
    \* the configuration
    config,          \* the config object the server, the container and the manager share
    disk,            \* what each of the three files holds
    optDefaults,     \* observation: the options DefaultOption was called for
    optOverrides,    \* observation: the options OverrideOption was called for
    loadErr,         \* what the last config.load() returned
    fresh,           \* observation: nothing load depends on has changed since it returned
    \* the container's metadata
    name,            \* container.name, as given to NewServer
    version,         \* container.version, as given to NewServer
    nameRet,         \* what the last container.Name() returned
    versionRet       \* what the last container.Version() returned

startVars == <<startPc, startI, running, failClosed, doneClosed, startErr, task, taskErr, crashed>>

stopVars == <<stopPc, stopI, stopping, stopper, fault, await, awaitErr, faults, stopErr, stops>>

reloadVars == <<reloadPc, reloadI, failedToReload, reloadErr>>

obsVars == <<calls, rets, stopOrder>>

rtVars == <<callbacks, cbCalls, cbRets, cbStops, rtPc, cbI, stopCallbacks, unwindI, rtErr>>

serverVars == <<serverPc, currentRuntime, serverErr, panicValue, logged, logClosed, runs, history,
                serverStopPc, serverStopErr>>

runVars == <<runPc, runErr, bootPc, bootErr, notified, sig, delivered, sigPc, sigCur, sigErr,
            abandoned>>

aggVars == <<aggErrors, mutex, wPc, wErr, wSlice, started, arrival, completed, nilAdds,
            asErr, asSeen, message, msgSeen>>

confVars == <<config, disk, optDefaults, optOverrides, loadErr, fresh>>

metaVars == <<name, version, nameRet, versionRet>>

runtimeVars == <<rtVars, serverVars, runVars, aggVars, confVars, metaVars>>

vars == <<services, obsVars, startVars, stopVars, reloadVars, runtimeVars>>

\* The two halves of a callback.
Halves == {"start", "stop"}

Callbacks == 1..MaxCallbacks

\* The callbacks registered so far.
RegisteredCallbacks == 1..Len(callbacks)

\* The goroutines that call AddError.
Writers == 1..MaxWriters

\* The signals Run asks to be notified of: os.Interrupt, SIGTERM, SIGHUP.
Signals == {"SIGINT", "SIGTERM", "SIGHUP"}

\* In sigCur: the goroutine is handling no signal.
NoSignal == "-"

\* In panicValue: the runFunc has not panicked.
NoPanic == "-"

\* What a runFunc may call panic with: an error, a value that is no error, nil.
PanicValues == {"error", "value", "nil"}

\* The optional interfaces a service may implement besides Service.
Kinds == [startHandler : BOOLEAN, stopHandler : BOOLEAN, reloadable : BOOLEAN]

Methods == {"OnStart", "Start", "OnStop", "Stop", "Reload"}

\* In rets: the method has not returned (yet).
NoReturn == "-"

Registered == 1..Len(services)

\* newServiceManager: an empty registry; nothing has been called. NewServer and
\* Server.Config: the server has been given the path of its config file, and
\* the three files are there without an option.
Init ==
    /\ services = <<>>
    /\ calls = [m \in Methods |-> [u \in Units |-> 0]]
    /\ rets = [m \in Methods |-> [u \in Units |-> NoReturn]]
    /\ stopOrder = <<>>
    /\ startPc = "idle" /\ startI = 1 /\ running = 0
    /\ failClosed = FALSE /\ doneClosed = FALSE /\ startErr = Nil
    /\ task = [u \in Units |-> "none"]
    /\ taskErr = [u \in Units |-> Nil]
    /\ crashed = FALSE
    /\ stopPc = "idle" /\ stopI = 0 /\ stopping = 0
    /\ stopper = [u \in Units |-> "none"]
    /\ fault = [u \in Units |-> <<>>]
    /\ await = [u \in Units |-> "none"]
    /\ awaitErr = [u \in Units |-> Nil]
    /\ faults = <<>> /\ stopErr = Nil /\ stops = 0
    /\ reloadPc = "idle" /\ reloadI = 1
    /\ failedToReload = <<>> /\ reloadErr = Nil
    /\ callbacks = <<>>
    /\ cbCalls = [h \in Halves |-> [c \in Callbacks |-> 0]]
    /\ cbRets = [c \in Callbacks |-> NoReturn]
    /\ cbStops = <<>>
    /\ rtPc = "idle" /\ cbI = 1 /\ stopCallbacks = <<>> /\ unwindI = 1 /\ rtErr = Nil
    /\ serverPc = "idle" /\ currentRuntime = FALSE /\ serverErr = Nil
    /\ panicValue = NoPanic /\ logged = <<>> /\ logClosed = FALSE
    /\ runs = 0 /\ history = <<>>
    /\ serverStopPc = "idle" /\ serverStopErr = NoReturn
    /\ runPc = "idle" /\ runErr = Nil
    /\ bootPc = "idle" /\ bootErr = Nil
    /\ notified = FALSE /\ sig = <<>> /\ delivered = 0
    /\ sigPc = "none" /\ sigCur = NoSignal /\ sigErr = Nil
    /\ abandoned = [u \in Units |-> [spawned |-> 0, Stop |-> 0]]
    /\ aggErrors = <<>> /\ mutex = 0
    /\ wPc = [w \in Writers |-> "idle"]
    /\ wErr = [w \in Writers |-> Nil]
    /\ wSlice = [w \in Writers |-> <<>>]
    /\ started = <<>> /\ arrival = <<>> /\ completed = <<>> /\ nilAdds = 0
    /\ asErr = NoReturn /\ asSeen = <<>>
    /\ message = NoReturn /\ msgSeen = <<>>
    /\ config = [newConfig EXCEPT !.path = PathOf("main")]
    /\ disk = [f \in FileNames |-> NewConfigFile]
    /\ optDefaults = NewConfigFile /\ optOverrides = NewConfigFile
    /\ loadErr = NoReturn /\ fresh = FALSE
    /\ name = "" /\ version = "" /\ nameRet = NoReturn /\ versionRet = NoReturn

\* Method m of service u is invoked.
Called(m, u) == calls' = [calls EXCEPT ![m][u] = @ + 1]

\* Method m of service u returns err.
Returned(m, u, err) == rets' = [rets EXCEPT ![m][u] = err]

\* The single-threaded setup phase: nothing has been started, stopped or reloaded.
Setup == startPc = "idle" /\ stopPc = "idle" /\ reloadPc = "idle"

\* serviceManager.AddService
AddService(kind) ==
    /\ Setup
    /\ Len(services) < MaxUnits
    /\ services' = Append(services, kind)
    /\ UNCHANGED <<obsVars, startVars, stopVars, reloadVars, runtimeVars>>

\* ------------------------------------------------- serviceManager.Start
\* Faulty variant of StartEmpty: the check for an empty registry is missing, Start goes
\* through its (empty) loop and on to the select.
StartEmptyUnchecked ==
    /\ ~crashed
    /\ startPc = "idle"
    /\ Len(services) <= 0
    /\ startPc' = "select"
    /\ UNCHANGED <<runtimeVars, services, obsVars, startI, running, failClosed, doneClosed, startErr,
                   task, taskErr, crashed, stopVars, reloadVars>>

\* Start on an empty registry: the error, and nothing else.
StartEmpty ==
    /\ ~crashed
    /\ startPc = "idle"
    /\ Len(services) <= 0
    /\ startPc' = "returned"
    /\ startErr' = ErrNoServices
    /\ UNCHANGED <<runtimeVars, services, obsVars, startI, running, failClosed, doneClosed, task,
                   taskErr, crashed, stopVars, reloadVars>>

\* Start on a non-empty registry enters the for loop.
StartBegin ==
    /\ ~crashed
    /\ startPc = "idle"
    /\ Len(services) > 0
    /\ startPc' = "spawn"
    /\ startI' = 1
    /\ UNCHANGED <<runtimeVars, services, obsVars, running, failClosed, doneClosed, startErr, task,
                   taskErr, crashed, stopVars, reloadVars>>

\* One iteration of the for loop: running.Add(1); go func(srv). After the last
\* one Start makes done, starts the goroutine that waits for running, and selects.
StartSpawn ==
    /\ ~crashed
    /\ startPc = "spawn"
    /\ running' = running + 1
    /\ task' = [task EXCEPT ![startI] = "spawned"]
    /\ startI' = startI + 1
    /\ startPc' = IF startI = Len(services) THEN "select" ELSE "spawn"
    /\ UNCHANGED <<runtimeVars, services, obsVars, failClosed, doneClosed, startErr, taskErr,
                   crashed, stopVars, reloadVars>>

\* The goroutine of service u begins: OnStart if u is a startHandler, else Start.
TaskBegin(u) ==
    /\ ~crashed
    /\ task[u] = "spawned"
    /\ IF services[u].startHandler
         THEN task' = [task EXCEPT ![u] = "OnStart"] /\ Called("OnStart", u)
         ELSE task' = [task EXCEPT ![u] = "Start"] /\ Called("Start", u)
    /\ UNCHANGED <<runtimeVars, services, rets, stopOrder, startPc, startI, running, failClosed, doneClosed,
                   startErr, taskErr, crashed, stopVars, reloadVars>>

\* Faulty variant of TaskOnStartReturns: the error of OnStart is sent on fail by
\* a goroutine of its own, and the task goes on to Start whatever OnStart returned.
TaskOnStartReturnsGoesOn(u, err) ==
    /\ ~crashed
    /\ task[u] = "OnStart"
    /\ Returned("OnStart", u, err)
    /\ task' = [task EXCEPT ![u] = "Start"]
    /\ Called("Start", u)
    /\ taskErr' = [taskErr EXCEPT ![u] = err]
    /\ UNCHANGED <<runtimeVars, services, stopOrder, startPc, startI, running, failClosed, doneClosed,
                   startErr, crashed, stopVars, reloadVars>>

\* OnStart of u returns err: nil goes on to Start, an error is to be sent on fail.
TaskOnStartReturns(u, err) ==
    /\ ~crashed
    /\ task[u] = "OnStart"
    /\ Returned("OnStart", u, err)
    /\ IF err # Nil
         THEN /\ task' = [task EXCEPT ![u] = "send"]
              /\ taskErr' = [taskErr EXCEPT ![u] = err]
              /\ UNCHANGED calls
         ELSE /\ task' = [task EXCEPT ![u] = "Start"]
              /\ Called("Start", u)
              /\ UNCHANGED taskErr
    /\ UNCHANGED <<runtimeVars, services, stopOrder, startPc, startI, running, failClosed, doneClosed,
                   startErr, crashed, stopVars, reloadVars>>

\* Faulty variant of TaskStartReturns: OnStop is called whatever Start returned.
TaskStartReturnsAlwaysOnStop(u, err) ==
    /\ ~crashed
    /\ task[u] = "Start"
    /\ Returned("Start", u, err)
    /\ IF services[u].stopHandler
         THEN /\ task' = [task EXCEPT ![u] = "OnStop"]
              /\ Called("OnStop", u)
              /\ UNCHANGED <<taskErr, running>>
         ELSE IF err # Nil
         THEN /\ task' = [task EXCEPT ![u] = "send"]
              /\ taskErr' = [taskErr EXCEPT ![u] = err]
              /\ UNCHANGED <<calls, running>>
         ELSE /\ task' = [task EXCEPT ![u] = "done"]
              /\ running' = running - 1
              /\ UNCHANGED <<taskErr, calls>>
    /\ UNCHANGED <<runtimeVars, services, stopOrder, startPc, startI, failClosed, doneClosed, startErr,
                   crashed, stopVars, reloadVars>>

\* Start of u returns err: an error is logged and is to be sent on fail; after nil,
\* OnStop is called if u is a stopHandler, else the goroutine ends (running.Done).
TaskStartReturns(u, err) ==
    /\ ~crashed
    /\ task[u] = "Start"
    /\ Returned("Start", u, err)
    /\ IF err # Nil
         THEN /\ task' = [task EXCEPT ![u] = "send"]
              /\ taskErr' = [taskErr EXCEPT ![u] = err]
              /\ UNCHANGED <<calls, running>>
         ELSE IF services[u].stopHandler
         THEN /\ task' = [task EXCEPT ![u] = "OnStop"]
              /\ Called("OnStop", u)
              /\ UNCHANGED <<taskErr, running>>
         ELSE /\ task' = [task EXCEPT ![u] = "done"]
              /\ running' = running - 1
              /\ UNCHANGED <<taskErr, calls>>
    /\ UNCHANGED <<runtimeVars, services, stopOrder, startPc, startI, failClosed, doneClosed, startErr,
                   crashed, stopVars, reloadVars>>

\* OnStop of u returns; the goroutine ends (the deferred running.Done).
TaskOnStopReturns(u) ==
    /\ ~crashed
    /\ task[u] = "OnStop"
    /\ task' = [task EXCEPT ![u] = "done"]
    /\ running' = running - 1
    /\ Returned("OnStop", u, Nil)
    /\ UNCHANGED <<runtimeVars, services, calls, stopOrder, startPc, startI, failClosed, doneClosed,
                   startErr, taskErr, crashed, stopVars, reloadVars>>

\* fail <- err on the closed channel panics; nothing recovers it in the goroutine.
TaskSendPanics(u) ==
    /\ ~crashed
    /\ task[u] = "send"
    /\ failClosed
    /\ crashed' = TRUE
    /\ UNCHANGED <<runtimeVars, services, obsVars, startPc, startI, running, failClosed, doneClosed,
                   startErr, task, taskErr, stopVars, reloadVars>>

\* Faulty variant of CloseDone: done is closed without running.Wait().
CloseDoneEarly ==
    /\ ~crashed
    /\ Len(services) > 0
    /\ startPc \in {"select", "returned"}
    /\ ~doneClosed
    /\ doneClosed' = TRUE
    /\ UNCHANGED <<runtimeVars, services, obsVars, startPc, startI, running, failClosed, startErr,
                   task, taskErr, crashed, stopVars, reloadVars>>

\* go func() { running.Wait(); close(done) }(): the goroutine is started after
\* the loop (never on an empty registry) and outlives Start.
CloseDone ==
    /\ ~crashed
    /\ Len(services) > 0
    /\ startPc \in {"select", "returned"}
    /\ running = 0
    /\ ~doneClosed
    /\ doneClosed' = TRUE
    /\ UNCHANGED <<runtimeVars, services, obsVars, startPc, startI, running, failClosed, startErr,
                   task, taskErr, crashed, stopVars, reloadVars>>

\* select, case <-done: return nil.
StartSelectDone ==
    /\ ~crashed
    /\ startPc = "select"
    /\ doneClosed
    /\ startPc' = "returned"
    /\ startErr' = Nil
    /\ UNCHANGED <<runtimeVars, services, obsVars, startI, running, failClosed, doneClosed, task,
                   taskErr, crashed, stopVars, reloadVars>>

\* Faulty variant of StartSelectFail: the error is taken from fail only once every other
\* goroutine is over (Start waits for all before it reports).
StartSelectFailWaits(u) ==
    /\ ~crashed
    /\ startPc = "select"
    /\ task[u] = "send"
    /\ ~failClosed
    /\ running = 1
    /\ startErr' = taskErr[u]
    /\ failClosed' = TRUE
    /\ startPc' = "returned"
    /\ task' = [task EXCEPT ![u] = "done"]
    /\ running' = running - 1
    /\ UNCHANGED <<runtimeVars, services, obsVars, startI, doneClosed, taskErr, crashed, stopVars,
                   reloadVars>>

\* Faulty variant of StartSelectFail: with the first error Start cancels the
\* goroutines of the other services, which are over when it returns.
StartSelectFailCancels(u) ==
    /\ ~crashed
    /\ startPc = "select"
    /\ task[u] = "send"
    /\ ~failClosed
    /\ startErr' = taskErr[u]
    /\ failClosed' = TRUE
    /\ startPc' = "returned"
    /\ task' = [v \in Units |-> IF v \in Registered THEN "done" ELSE task[v]]
    /\ running' = 0
    /\ UNCHANGED <<runtimeVars, services, obsVars, startI, doneClosed, taskErr, crashed, stopVars,
                   reloadVars>>

\* select, case err = <-fail: the send of u completes (its goroutine ends with the
\* deferred running.Done), Start closes fail and returns err.
StartSelectFail(u) ==
    /\ ~crashed
    /\ startPc = "select"
    /\ task[u] = "send"
    /\ ~failClosed
    /\ startErr' = taskErr[u]
    /\ failClosed' = TRUE
    /\ startPc' = "returned"
    /\ task' = [task EXCEPT ![u] = "done"]
    /\ running' = running - 1
    /\ UNCHANGED <<runtimeVars, services, obsVars, startI, doneClosed, taskErr, crashed, stopVars,
                   reloadVars>>

\* The kinds of service that differ for Start: the start and stop hooks.
StartKinds == {k \in Kinds : ~k.reloadable}

StartNext ==
    \/ \E k \in StartKinds : AddService(k)
    \/ StartEmpty
    \/ StartBegin
    \/ StartSpawn
    \/ \E u \in Registered : TaskBegin(u)
    \/ \E u \in Registered : \E err \in {Nil, OnStartErr(u)} : TaskOnStartReturns(u, err)
    \/ \E u \in Registered : \E err \in {Nil, StartErr(u)} : TaskStartReturns(u, err)
    \/ \E u \in Registered : TaskOnStopReturns(u)
    \/ \E u \in Registered : TaskSendPanics(u)
    \/ CloseDone
    \/ StartSelectDone
    \/ \E u \in Registered : StartSelectFail(u)

\* Start alone: the registry is set up, Start is called once, the services run.
StartSpec == Init /\ [][StartNext]_vars

\* -------------------------------------------------- serviceManager.Stop
\* Stop is entered: a fresh multiError and WaitGroup; the loop starts at the
\* service registered last.
StopBegin ==
    /\ ~crashed
    /\ stopPc = "idle"
    /\ faults' = <<>>
    /\ stopping' = 0
    /\ stopI' = Len(services)
    /\ stopPc' = IF Len(services) = 0 THEN "wait" ELSE "loop"
    /\ stops' = stops + 1
    /\ UNCHANGED <<runtimeVars, services, obsVars, stopper, fault, await, awaitErr, stopErr,
                   startVars, reloadVars>>

\* Faulty variant of StopSpawn: the loop ends at i > 0, so the service registered first
\* is left out when there are others.
StopSpawnSkipsFirst ==
    /\ ~crashed
    /\ stopPc = "loop"
    /\ stopping' = stopping + 1
    /\ fault' = [fault EXCEPT ![stopI] = <<>>]
    /\ stopper' = [stopper EXCEPT ![stopI] = "spawned"]
    /\ await' = [await EXCEPT ![stopI] = "select"]
    /\ stopI' = stopI - 1
    /\ stopPc' = IF stopI - 1 >= 2 THEN "loop" ELSE "wait"
    /\ UNCHANGED <<runtimeVars, services, obsVars, awaitErr, faults, stopErr, stops, startVars, reloadVars>>

\* Faulty variant of StopSpawn: the loop walks the registry from its first service on.
StopSpawnForward ==
    /\ ~crashed
    /\ stopPc = "loop"
    /\ stopping' = stopping + 1
    /\ fault' = [fault EXCEPT ![Len(services) + 1 - stopI] = <<>>]
    /\ stopper' = [stopper EXCEPT ![Len(services) + 1 - stopI] = "spawned"]
    /\ await' = [await EXCEPT ![Len(services) + 1 - stopI] = "select"]
    /\ stopI' = stopI - 1
    /\ stopPc' = IF stopI - 1 >= 1 THEN "loop" ELSE "wait"
    /\ UNCHANGED <<runtimeVars, services, obsVars, awaitErr, faults, stopErr, stops, startVars, reloadVars>>

\* One iteration of the loop for service stopI: make(chan error, 1),
\* stopping.Add(1), and the two goroutines are started; then i--.
StopSpawn ==
    /\ ~crashed
    /\ stopPc = "loop"
    /\ stopping' = stopping + 1
    /\ fault' = [fault EXCEPT ![stopI] = <<>>]
    /\ stopper' = [stopper EXCEPT ![stopI] = "spawned"]
    /\ await' = [await EXCEPT ![stopI] = "select"]
    /\ stopI' = stopI - 1
    /\ stopPc' = IF stopI - 1 >= 1 THEN "loop" ELSE "wait"
    /\ UNCHANGED <<runtimeVars, services, obsVars, awaitErr, faults, stopErr, stops, startVars, reloadVars>>

\* The first goroutine of service u gets to run and invokes service.Stop().
\* (order is what the observer's stopOrder becomes: see Observed and Unobserved.)
StopperCalls(u, order) ==
    /\ ~crashed
    /\ stopper[u] = "spawned"
    /\ stopper' = [stopper EXCEPT ![u] = "Stop"]
    /\ Called("Stop", u)
    /\ stopOrder' = order
    /\ UNCHANGED <<runtimeVars, services, rets, stopPc, stopI, stopping, fault, await, awaitErr, faults,
                   stopErr, stops, startVars, reloadVars>>

\* Faulty variant of StopperReturns: the goroutine that called service.Stop()
\* also adds the result to the aggregate itself, however late it comes.
StopperReturnsAddsLate(u, err) ==
    /\ ~crashed
    /\ stopper[u] = "Stop"
    /\ stopper' = [stopper EXCEPT ![u] = "done"]
    /\ fault' = [fault EXCEPT ![u] = Append(@, err)]
    /\ faults' = AddError(faults, err)
    /\ Returned("Stop", u, err)
    /\ UNCHANGED <<runtimeVars, services, calls, stopOrder, stopPc, stopI, stopping, await, awaitErr,
                   stopErr, stops, startVars, reloadVars>>

\* service.Stop() of u returns err, which goes into the buffered channel (this
\* send never blocks: it is the only one on a channel of capacity 1).
StopperReturns(u, err) ==
    /\ ~crashed
    /\ stopper[u] = "Stop"
    /\ stopper' = [stopper EXCEPT ![u] = "done"]
    /\ fault' = [fault EXCEPT ![u] = Append(@, err)]
    /\ Returned("Stop", u, err)
    /\ UNCHANGED <<runtimeVars, services, calls, stopOrder, stopPc, stopI, stopping, await, awaitErr, faults,
                   stopErr, stops, startVars, reloadVars>>

\* service.Stop() of u turns out to be one that never returns.
StopperHangs(u) ==
    /\ ~crashed
    /\ stopper[u] = "Stop"
    /\ stopper' = [stopper EXCEPT ![u] = "hung"]
    /\ UNCHANGED <<runtimeVars, services, obsVars, stopPc, stopI, stopping, fault, await, awaitErr,
                   faults, stopErr, stops, startVars, reloadVars>>

\* select, case err = <-fault.
AwaitFault(u) ==
    /\ ~crashed
    /\ await[u] = "select"
    /\ Len(fault[u]) > 0
    /\ awaitErr' = [awaitErr EXCEPT ![u] = Head(fault[u])]
    /\ fault' = [fault EXCEPT ![u] = Tail(@)]
    /\ await' = [await EXCEPT ![u] = "add"]
    /\ UNCHANGED <<runtimeVars, services, obsVars, stopPc, stopI, stopping, stopper, faults, stopErr, stops,
                   startVars, reloadVars>>

\* Faulty variant of AwaitTimeout: the select has no timeout case, only the result of
\* service.Stop() ends it.
AwaitWithoutTimeout(u) ==
    /\ ~crashed
    /\ await[u] = "select"
    /\ Len(fault[u]) > 0
    /\ awaitErr' = [awaitErr EXCEPT ![u] = Head(fault[u])]
    /\ fault' = [fault EXCEPT ![u] = Tail(@)]
    /\ await' = [await EXCEPT ![u] = "add"]
    /\ UNCHANGED <<runtimeVars, services, obsVars, stopPc, stopI, stopping, stopper, faults, stopErr, stops,
                   startVars, reloadVars>>

\* select, case <-time.After(5 * time.Second): the timer is not measured, it may
\* fire at any moment the goroutine is in the select.
AwaitTimeout(u) ==
    /\ ~crashed
    /\ await[u] = "select"
    /\ awaitErr' = [awaitErr EXCEPT ![u] = ErrTimeout]
    /\ await' = [await EXCEPT ![u] = "add"]
    /\ UNCHANGED <<runtimeVars, services, obsVars, stopPc, stopI, stopping, stopper, fault, faults,
                   stopErr, stops, startVars, reloadVars>>

\* faults.AddError(err), then the deferred stopping.Done().
AwaitAdd(u) ==
    /\ ~crashed
    /\ await[u] = "add"
    /\ faults' = AddError(faults, awaitErr[u])
    /\ stopping' = stopping - 1
    /\ await' = [await EXCEPT ![u] = "done"]
    /\ UNCHANGED <<runtimeVars, services, obsVars, stopPc, stopI, stopper, fault, awaitErr, stopErr, stops,
                   startVars, reloadVars>>

\* Faulty variant of StopReturn: Stop returns without stopping.Wait().
StopReturnNoWait ==
    /\ ~crashed
    /\ stopPc = "wait"
    /\ stopErr' = AsError(faults, FaultsRef)
    /\ stopPc' = "returned"
    /\ UNCHANGED <<runtimeVars, services, obsVars, stopI, stopping, stopper, fault, await, awaitErr,
                   faults, stops, startVars, reloadVars>>

\* stopping.Wait() is over: return faults.AsError().
StopReturn ==
    /\ ~crashed
    /\ stopPc = "wait"
    /\ stopping = 0
    /\ stopErr' = AsError(faults, FaultsRef)
    /\ stopPc' = "returned"
    /\ UNCHANGED <<runtimeVars, services, obsVars, stopI, stopping, stopper, fault, await, awaitErr,
                   faults, stops, startVars, reloadVars>>

\* The observer writes down the order in which Stop is invoked, or does not.
Observed(u) == Append(stopOrder, u)

Unobserved(u) == stopOrder

\* Stop looks at no optional interface: one kind of service stands for all.
StopKinds == {k \in Kinds : ~k.startHandler /\ ~k.stopHandler /\ ~k.reloadable}

StopNext ==
    \/ \E k \in StopKinds : AddService(k)
    \/ StopBegin
    \/ StopSpawn
    \/ \E u \in Registered : StopperCalls(u, Unobserved(u))
    \/ \E u \in Registered : \E err \in {Nil, StopErr(u)} : StopperReturns(u, err)
    \/ \E u \in Registered : StopperHangs(u)
    \/ \E u \in Registered : AwaitFault(u)
    \/ \E u \in Registered : AwaitTimeout(u)
    \/ \E u \in Registered : AwaitAdd(u)
    \/ StopReturn

\* Stop alone: the registry is set up and Stop is called once.
StopSpec == Init /\ [][StopNext]_vars

\* The same, with the order of the invocations of Stop written down. A Stop that
\* never returns is here the Stop that has not returned: without fairness
\* StopperReturns may stay untaken for ever, and the attempt times out as it does
\* after StopperHangs. A Stop that returns, returns its error here: the order of
\* the entries is a matter of the Stops that fail, a nil adds no entry (AddError).
StopOrderNext ==
    \/ \E k \in StopKinds : AddService(k)
    \/ StopBegin
    \/ StopSpawn
    \/ \E u \in Registered : StopperCalls(u, Observed(u))
    \/ \E u \in Registered : StopperReturns(u, StopErr(u))
    \/ \E u \in Registered : AwaitFault(u)
    \/ \E u \in Registered : AwaitTimeout(u)
    \/ \E u \in Registered : AwaitAdd(u)
    \/ StopReturn

StopOrderSpec == Init /\ [][StopOrderNext]_vars

\* The goroutines of Stop are scheduled, and a timer that was started fires:
\* every step of Stop's own code that can be taken is taken in the end. Whether a
\* service's Stop returns is up to the service (no fairness on StopperReturns).
\* A call of Stop takes finitely many steps, and a step that can be taken stays
\* so until it is taken, so the one condition on all the steps says the same as
\* one condition for each of them.
StopFairness ==
    WF_vars(\/ StopSpawn \/ StopReturn
            \/ \E u \in Units :
                 \/ StopperCalls(u, Unobserved(u))
                 \/ AwaitFault(u) \/ AwaitTimeout(u) \/ AwaitAdd(u))

FairStopSpec == StopSpec /\ StopFairness

\* ------------------------------------------------ serviceManager.Reload
\* A call of config.load(), the files of unreadable failing to be read: what
\* load does to the config, and what it returns.
Loads(unreadable) ==
    /\ config' = load(config, disk, unreadable).config
    /\ loadErr' = load(config, disk, unreadable).err
    /\ fresh' = TRUE
    /\ UNCHANGED <<disk, optDefaults, optOverrides>>

\* The ways config.load() can fail now: the files that fail to be read.
FailedReads == {unreadable \in SUBSET FileNames : load(config, disk, unreadable).err # Nil}

\* Faulty variant of ReloadConfigFails: the error of config.load() is kept but
\* Reload goes on into its loop.
ReloadConfigFailsGoesOn ==
    /\ ~crashed
    /\ reloadPc = "idle"
    /\ \E unreadable \in FailedReads : Loads(unreadable)
    /\ reloadErr' = ErrConfig
    /\ failedToReload' = <<>>
    /\ reloadI' = 1
    /\ reloadPc' = "loop"
    /\ UNCHANGED <<rtVars, serverVars, runVars, aggVars, metaVars, services, obsVars, startVars, stopVars>>

\* manager.config.load() fails, having done to the config what it does until
\* the read that fails: Reload returns its error.
ReloadConfigFails ==
    /\ ~crashed
    /\ reloadPc = "idle"
    /\ \E unreadable \in FailedReads : Loads(unreadable)
    /\ reloadErr' = ErrConfig
    /\ reloadPc' = "returned"
    /\ UNCHANGED <<rtVars, serverVars, runVars, aggVars, metaVars, services, obsVars, reloadI, failedToReload,
                   startVars, stopVars>>

\* manager.config.load() succeeds: a fresh multiError, and the loop begins.
ReloadBegin ==
    /\ ~crashed
    /\ reloadPc = "idle"
    /\ Loads({})
    /\ failedToReload' = <<>>
    /\ reloadI' = 1
    /\ reloadPc' = "loop"
    /\ UNCHANGED <<rtVars, serverVars, runVars, aggVars, metaVars, services, obsVars, reloadErr, startVars,
                   stopVars>>

\* Faulty variant of ReloadService: the loop ends at the first Reload that fails.
ReloadServiceFailFast(err) ==
    /\ ~crashed
    /\ reloadPc = "loop"
    /\ reloadI <= Len(services)
    /\ IF services[reloadI].reloadable
         THEN /\ Called("Reload", reloadI)
              /\ Returned("Reload", reloadI, err)
              /\ failedToReload' = AddError(failedToReload, err)
         ELSE /\ err = Nil
              /\ UNCHANGED <<calls, rets, failedToReload>>
    /\ reloadI' = IF err # Nil THEN Len(services) + 1 ELSE reloadI + 1
    /\ UNCHANGED <<runtimeVars, services, stopOrder, reloadPc, reloadErr, startVars, stopVars>>

\* Faulty variant of ReloadService: the service is taken to be Reloadable, and
\* one that is not puts an error into the multiError.
ReloadServiceDemandsReloadable(err) ==
    /\ ~crashed
    /\ reloadPc = "loop"
    /\ reloadI <= Len(services)
    /\ IF services[reloadI].reloadable
         THEN /\ Called("Reload", reloadI)
              /\ Returned("Reload", reloadI, err)
              /\ failedToReload' = AddError(failedToReload, err)
         ELSE /\ err = Nil
              /\ failedToReload' = AddError(failedToReload, "not Reloadable")
              /\ UNCHANGED <<calls, rets>>
    /\ reloadI' = reloadI + 1
    /\ UNCHANGED <<runtimeVars, services, stopOrder, reloadPc, reloadErr, startVars, stopVars>>

\* One iteration of the loop: a Reloadable service is reloaded and what it
\* returns is added to the multiError; any other service is passed over.
ReloadService(err) ==
    /\ ~crashed
    /\ reloadPc = "loop"
    /\ reloadI <= Len(services)
    /\ IF services[reloadI].reloadable
         THEN /\ Called("Reload", reloadI)
              /\ Returned("Reload", reloadI, err)
              /\ failedToReload' = AddError(failedToReload, err)
         ELSE /\ err = Nil
              /\ UNCHANGED <<calls, rets, failedToReload>>
    /\ reloadI' = reloadI + 1
    /\ UNCHANGED <<runtimeVars, services, stopOrder, reloadPc, reloadErr, startVars, stopVars>>

\* The loop is over: return failedToReload.AsError().
ReloadReturn ==
    /\ ~crashed
    /\ reloadPc = "loop"
    /\ reloadI > Len(services)
    /\ reloadErr' = AsError(failedToReload, FailedToReloadRef)
    /\ reloadPc' = "returned"
    /\ UNCHANGED <<runtimeVars, services, obsVars, reloadI, failedToReload, startVars, stopVars>>

\* The kinds of service that differ for Reload: Reloadable or not.
ReloadKinds == {k \in Kinds : ~k.startHandler /\ ~k.stopHandler}

ReloadNext ==
    \/ \E k \in ReloadKinds : AddService(k)
    \/ ReloadConfigFails
    \/ ReloadBegin
    \/ \E err \in {Nil, ReloadErr(reloadI)} : ReloadService(err)
    \/ ReloadReturn

\* Reload alone: the registry is set up and Reload is called once.
ReloadSpec == Init /\ [][ReloadNext]_vars

\* ------------------------------------------------------- runtime.Start
\* Everything but the runtime's own callbacks and Start.
belowRuntime == <<services, obsVars, startVars, stopVars, reloadVars, serverVars, runVars,
                  aggVars, confVars, metaVars>>

\* runtime.Callback: the pair is appended to the callback list. A half that
\* the caller gave is "given"; the halves OnStart and OnStop fill in are the
\* func that does nothing ("noop") and the func that returns nil ("nil").
Callback(start, stop) ==
    /\ Setup /\ rtPc = "idle"
    /\ Len(callbacks) < MaxCallbacks
    /\ callbacks' = Append(callbacks, [start |-> start, stop |-> stop])
    /\ UNCHANGED <<belowRuntime, cbCalls, cbRets, cbStops, rtPc, cbI, stopCallbacks, unwindI, rtErr>>

\* runtime.OnStart
OnStart == Callback("given", "noop")

\* runtime.OnStop
OnStop == Callback("nil", "given")

\* runtime.Start is entered: stopCallbacks is empty, the loop is at the first callback.
RuntimeStartBegin ==
    /\ ~crashed
    /\ rtPc = "idle"
    /\ stopCallbacks' = <<>>
    /\ cbI' = 1
    /\ rtPc' = "callbacks"
    /\ UNCHANGED <<belowRuntime, callbacks, cbCalls, cbRets, cbStops, unwindI, rtErr>>

\* Faulty variant of RuntimeCallbackStart: the callback is put on stopCallbacks
\* before its start half is called, so that a failed one is unwound as well.
RuntimeCallbackStartPushesFirst(err) ==
    /\ ~crashed
    /\ rtPc = "callbacks"
    /\ cbI <= Len(callbacks)
    /\ callbacks[cbI].start = "nil" => err = Nil
    /\ cbCalls' = [cbCalls EXCEPT !["start"][cbI] = @ + 1]
    /\ cbRets' = [cbRets EXCEPT ![cbI] = err]
    /\ stopCallbacks' = <<cbI>> \o stopCallbacks
    /\ IF err # Nil
         THEN /\ rtErr' = err
              /\ unwindI' = 1
              /\ rtPc' = "unwind"
              /\ UNCHANGED cbI
         ELSE /\ cbI' = cbI + 1
              /\ UNCHANGED <<rtErr, unwindI, rtPc>>
    /\ UNCHANGED <<belowRuntime, callbacks, cbStops>>

\* Faulty variant of RuntimeCallbackStart: the error of a start half is dropped
\* and the loop goes on to the next callback.
RuntimeCallbackStartGoesOn(err) ==
    /\ ~crashed
    /\ rtPc = "callbacks"
    /\ cbI <= Len(callbacks)
    /\ callbacks[cbI].start = "nil" => err = Nil
    /\ cbCalls' = [cbCalls EXCEPT !["start"][cbI] = @ + 1]
    /\ cbRets' = [cbRets EXCEPT ![cbI] = err]
    /\ stopCallbacks' = IF err = Nil THEN <<cbI>> \o stopCallbacks ELSE stopCallbacks
    /\ cbI' = cbI + 1
    /\ UNCHANGED <<belowRuntime, callbacks, cbStops, rtErr, unwindI, rtPc>>

\* One iteration of the loop over runtime.callbacks: the start half of the
\* callback is called; when it fails Start returns its error, which runs the
\* deferred unwinding; when it succeeds the callback is put in front of
\* stopCallbacks.
RuntimeCallbackStart(err) ==
    /\ ~crashed
    /\ rtPc = "callbacks"
    /\ cbI <= Len(callbacks)
    /\ callbacks[cbI].start = "nil" => err = Nil
    /\ cbCalls' = [cbCalls EXCEPT !["start"][cbI] = @ + 1]
    /\ cbRets' = [cbRets EXCEPT ![cbI] = err]
    /\ IF err # Nil
         THEN /\ rtErr' = err
              /\ unwindI' = 1
              /\ rtPc' = "unwind"
              /\ UNCHANGED <<cbI, stopCallbacks>>
         ELSE /\ stopCallbacks' = <<cbI>> \o stopCallbacks
              /\ cbI' = cbI + 1
              /\ UNCHANGED <<rtErr, unwindI, rtPc>>
    /\ UNCHANGED <<belowRuntime, callbacks, cbStops>>

\* Faulty variant of RuntimeDelegate: serviceManager.Start is called although
\* callbacks are left to start.
RuntimeDelegateEarly ==
    /\ ~crashed
    /\ rtPc = "callbacks"
    /\ rtPc' = "manager"
    /\ UNCHANGED <<belowRuntime, callbacks, cbCalls, cbRets, cbStops, cbI, stopCallbacks, unwindI, rtErr>>

\* The loop is over: runtime.serviceManager.Start() is called.
RuntimeDelegate ==
    /\ ~crashed
    /\ rtPc = "callbacks"
    /\ cbI > Len(callbacks)
    /\ rtPc' = "manager"
    /\ UNCHANGED <<belowRuntime, callbacks, cbCalls, cbRets, cbStops, cbI, stopCallbacks, unwindI, rtErr>>

\* serviceManager.Start as runtime.Start calls it, on an empty registry.
RuntimeManagerStartEmpty == rtPc = "manager" /\ StartEmpty

\* serviceManager.Start as runtime.Start calls it.
RuntimeManagerStartBegin == rtPc = "manager" /\ StartBegin

\* Faulty variant of RuntimeManagerReturns: an error of serviceManager.Start is
\* returned at once, without the unwinding.
RuntimeManagerReturnsNoUnwind ==
    /\ ~crashed
    /\ rtPc = "manager"
    /\ startPc = "returned"
    /\ rtErr' = startErr
    /\ unwindI' = IF startErr = Nil THEN 1 ELSE Len(stopCallbacks) + 1
    /\ rtPc' = "unwind"
    /\ UNCHANGED <<belowRuntime, callbacks, cbCalls, cbRets, cbStops, cbI, stopCallbacks>>

\* serviceManager.Start has returned: runtime.Start returns what it returned,
\* which runs the deferred unwinding.
RuntimeManagerReturns ==
    /\ ~crashed
    /\ rtPc = "manager"
    /\ startPc = "returned"
    /\ rtErr' = startErr
    /\ unwindI' = 1
    /\ rtPc' = "unwind"
    /\ UNCHANGED <<belowRuntime, callbacks, cbCalls, cbRets, cbStops, cbI, stopCallbacks>>

\* One iteration of the deferred loop: the stop half of the next callback of
\* stopCallbacks is called.
RuntimeUnwind ==
    /\ ~crashed
    /\ rtPc = "unwind"
    /\ unwindI <= Len(stopCallbacks)
    /\ cbCalls' = [cbCalls EXCEPT !["stop"][stopCallbacks[unwindI]] = @ + 1]
    /\ cbStops' = Append(cbStops, stopCallbacks[unwindI])
    /\ unwindI' = unwindI + 1
    /\ UNCHANGED <<belowRuntime, callbacks, cbRets, rtPc, cbI, stopCallbacks, rtErr>>

\* The deferred loop is over: runtime.Start has returned.
RuntimeStartReturn ==
    /\ ~crashed
    /\ rtPc = "unwind"
    /\ unwindI > Len(stopCallbacks)
    /\ rtPc' = "returned"
    /\ UNCHANGED <<belowRuntime, callbacks, cbCalls, cbRets, cbStops, cbI, stopCallbacks, unwindI, rtErr>>

\* The services of the runtime specifications have every hook: OnStart, Start
\* and OnStop are all called on them (a service without hooks is one whose
\* hooks are skipped, as in StartSpec).
RtKinds == {k \in Kinds : k.startHandler /\ k.stopHandler /\ k.reloadable}

\* runtime.Service
Service(kind) == Len(services) < MaxRtUnits /\ rtPc = "idle" /\ AddService(kind)

RtStartNext ==
    \/ Callback("given", "given")
    \/ OnStart
    \/ OnStop
    \/ \E k \in RtKinds : Service(k)
    \/ RuntimeStartBegin
    \/ \E err \in {Nil, CallbackErr(cbI)} : RuntimeCallbackStart(err)
    \/ RuntimeDelegate
    \/ RuntimeManagerStartEmpty
    \/ RuntimeManagerStartBegin
    \/ StartSpawn
    \/ \E u \in Registered : TaskBegin(u)
    \/ \E u \in Registered : \E err \in {Nil, OnStartErr(u)} : TaskOnStartReturns(u, err)
    \/ \E u \in Registered : \E err \in {Nil, StartErr(u)} : TaskStartReturns(u, err)
    \/ \E u \in Registered : TaskOnStopReturns(u)
    \/ \E u \in Registered : TaskSendPanics(u)
    \/ CloseDone
    \/ StartSelectDone
    \/ \E u \in Registered : StartSelectFail(u)
    \/ RuntimeManagerReturns
    \/ RuntimeUnwind
    \/ RuntimeStartReturn

\* runtime.Start alone: callbacks and services are registered and Start is
\* called once.
RtStartSpec == Init /\ [][RtStartNext]_vars

\* -------------------------------------- Start and Stop of the same service
\* Stop is called from outside (a signal, server.Stop) once Start was called.
StopFromOutside == startPc # "idle" /\ StopBegin

\* One service is registered, of any kind that differs for Start.
LifeService(kind) == services = <<>> /\ Service(kind)

\* The service is started and, at any moment from then on, stopped. With one
\* service no send on fail finds the channel closed.
LifeNext ==
    \/ \E k \in StartKinds : LifeService(k)
    \/ StartBegin
    \/ StartSpawn
    \/ \E u \in Registered : TaskBegin(u)
    \/ \E u \in Registered : \E err \in {Nil, OnStartErr(u)} : TaskOnStartReturns(u, err)
    \/ \E u \in Registered : \E err \in {Nil, StartErr(u)} : TaskStartReturns(u, err)
    \/ \E u \in Registered : TaskOnStopReturns(u)
    \/ CloseDone
    \/ StartSelectDone
    \/ \E u \in Registered : StartSelectFail(u)
    \/ StopFromOutside
    \/ StopSpawn
    \/ \E u \in Registered : StopperCalls(u, Unobserved(u))
    \/ \E u \in Registered : \E err \in {Nil, StopErr(u)} : StopperReturns(u, err)
    \/ \E u \in Registered : AwaitFault(u)
    \/ \E u \in Registered : AwaitTimeout(u)
    \/ \E u \in Registered : AwaitAdd(u)
    \/ StopReturn

LifeSpec == Init /\ [][LifeNext]_vars

\* ---------------------------------- Start and Reload of the same services
\* The services with none of the optional interfaces, and those with all.
HookKinds == {k \in Kinds : k.startHandler = k.stopHandler /\ k.stopHandler = k.reloadable}

\* The services are started and, at any moment, reloaded.
HooksNext ==
    \/ \E k \in HookKinds : Service(k)
    \/ StartBegin
    \/ StartSpawn
    \/ \E u \in Registered : TaskBegin(u)
    \/ \E u \in Registered : \E err \in {Nil, OnStartErr(u)} : TaskOnStartReturns(u, err)
    \/ \E u \in Registered : \E err \in {Nil, StartErr(u)} : TaskStartReturns(u, err)
    \/ \E u \in Registered : TaskOnStopReturns(u)
    \/ \E u \in Registered : TaskSendPanics(u)
    \/ CloseDone
    \/ StartSelectDone
    \/ \E u \in Registered : StartSelectFail(u)
    \/ ReloadConfigFails
    \/ ReloadBegin
    \/ \E err \in {Nil, ReloadErr(reloadI)} : ReloadService(err)
    \/ ReloadReturn

HooksSpec == Init /\ [][HooksNext]_vars

\* ------------------------------------------- server.Run, runtime.Run
\* Faulty variant of ServerRunFails: currentRuntime is set before newContainer
\* is called, and stays set when newContainer fails.
ServerRunFailsMarksRunning ==
    /\ serverPc = "idle"
    /\ ~currentRuntime
    /\ currentRuntime' = TRUE
    /\ \E unreadable \in SUBSET FileNames : Loads(unreadable)
    /\ serverErr' = ErrContainer
    /\ serverPc' = "returned"
    /\ UNCHANGED <<services, obsVars, startVars, stopVars, reloadVars, rtVars, aggVars, metaVars, runVars,
                   panicValue, logged, logClosed, runs, history, serverStopPc, serverStopErr>>

\* newContainer fails, config.load() failing or, the configuration loaded,
\* openLogWriter: server.Run returns its error.
ServerRunFails ==
    /\ serverPc = "idle"
    /\ ~currentRuntime
    /\ \E unreadable \in SUBSET FileNames : Loads(unreadable)
    /\ serverErr' = ErrContainer
    /\ serverPc' = "returned"
    /\ UNCHANGED <<services, obsVars, startVars, stopVars, reloadVars, rtVars, aggVars, metaVars, runVars,
                   currentRuntime, panicValue, logged, logClosed, runs, history, serverStopPc, serverStopErr>>

\* server.Run up to its call of Run on the new runtime: the configuration is
\* loaded, the container is there with its log open, its Close and the panic
\* handler are deferred.
ServerRunBegin ==
    /\ serverPc = "idle"
    /\ ~currentRuntime
    /\ Loads({})
    /\ currentRuntime' = TRUE
    /\ serverPc' = "Run"
    /\ logClosed' = FALSE
    /\ UNCHANGED <<services, obsVars, startVars, stopVars, reloadVars, rtVars, aggVars, metaVars, runVars,
                   serverErr, panicValue, logged, runs, history, serverStopPc, serverStopErr>>

\* runtime.Run up to its call of the runFunc: the signals are asked for and the
\* goroutine that handles them is started.
RunBegin ==
    /\ serverPc = "Run"
    /\ runPc = "idle"
    /\ notified' = TRUE
    /\ sigPc' = "range"
    /\ bootPc' = "setup"
    /\ runPc' = "runFunc"
    /\ UNCHANGED <<services, obsVars, startVars, stopVars, reloadVars, rtVars, aggVars, metaVars, confVars, serverVars, abandoned,
                   runErr, bootErr, sig, delivered, sigCur, sigErr>>

\* The runFunc registers its service: like the repository's own runFunc, which
\* sets one handler and calls Start, it registers a single one. (How several
\* services start and stop side by side is explored without signals.)
BootService(kind) == bootPc = "setup" /\ services = <<>> /\ Service(kind)

\* The runFunc returns an error of its own; it has not called runtime.Start.
BootFails ==
    /\ ~crashed
    /\ bootPc = "setup" /\ rtPc = "idle"
    /\ bootErr' = ErrBootstrap
    /\ bootPc' = "returned"
    /\ UNCHANGED <<services, obsVars, startVars, stopVars, reloadVars, rtVars, aggVars, metaVars, confVars, serverVars, abandoned,
                   runPc, runErr, notified, sig, delivered, sigPc, sigCur, sigErr>>

\* The runFunc calls runtime.Start.
BootStart == bootPc = "setup" /\ RuntimeStartBegin

\* runtime.Start has returned: the runFunc returns what it returned.
BootReturns ==
    /\ ~crashed
    /\ bootPc = "setup" /\ rtPc = "returned"
    /\ bootErr' = rtErr
    /\ bootPc' = "returned"
    /\ UNCHANGED <<services, obsVars, startVars, stopVars, reloadVars, rtVars, aggVars, metaVars, confVars, serverVars, abandoned,
                   runPc, runErr, notified, sig, delivered, sigPc, sigCur, sigErr>>

\* Faulty variant of RunReturn: the goroutine's err is Run's err (= instead of
\* :=), and an error of Reload is what Run returns.
RunReturnSharedErr ==
    /\ ~crashed
    /\ runPc = "runFunc"
    /\ bootPc = "returned"
    /\ runErr' = IF sigErr # Nil THEN sigErr ELSE bootErr
    /\ notified' = FALSE
    /\ runPc' = "returned"
    /\ UNCHANGED <<services, obsVars, startVars, stopVars, reloadVars, rtVars, aggVars, metaVars, confVars, serverVars, abandoned,
                   bootPc, bootErr, sig, delivered, sigPc, sigCur, sigErr>>

\* The runFunc has returned: Run returns its value, and the deferred
\* signal.Stop(sig) ends the notification.
RunReturn ==
    /\ ~crashed
    /\ runPc = "runFunc"
    /\ bootPc = "returned"
    /\ runErr' = bootErr
    /\ notified' = FALSE
    /\ runPc' = "returned"
    /\ UNCHANGED <<services, obsVars, startVars, stopVars, reloadVars, rtVars, aggVars, metaVars, confVars, serverVars, abandoned,
                   bootPc, bootErr, sig, delivered, sigPc, sigCur, sigErr>>

\* runtime.Run has returned: server.Run returns its value; of the deferred
\* calls the panic handler finds nothing to recover and container.Close()
\* closes the log.
ServerRunReturn ==
    /\ ~crashed
    /\ serverPc = "Run"
    /\ runPc = "returned"
    /\ serverErr' = runErr
    /\ serverPc' = "returned"
    /\ logClosed' = TRUE
    /\ UNCHANGED <<services, obsVars, startVars, stopVars, reloadVars, rtVars, aggVars, metaVars, confVars, runVars,
                   currentRuntime, panicValue, logged, runs, history, serverStopPc, serverStopErr>>

\* The process is sent signal s: it is put on the channel unless the channel is
\* full (signal.Notify does not block).
SignalArrives(s) ==
    /\ ~crashed
    /\ notified
    /\ delivered < MaxSignals
    /\ delivered' = delivered + 1
    /\ sig' = IF Len(sig) < SigCap THEN Append(sig, s) ELSE sig
    /\ UNCHANGED <<services, obsVars, startVars, stopVars, reloadVars, rtVars, aggVars, metaVars, confVars, serverVars, abandoned,
                   runPc, runErr, bootPc, bootErr, notified, sigPc, sigCur, sigErr>>

\* The terminate class of signals.
Terminate == {"SIGINT", "SIGTERM"}

\* The goroutine receives the next signal from the channel and switches on it.
SigTake ==
    /\ ~crashed
    /\ sigPc = "range"
    /\ sig # <<>>
    /\ sigCur' = Head(sig)
    /\ sig' = Tail(sig)
    /\ sigErr' = Nil
    /\ sigPc' = IF Head(sig) = "SIGHUP" THEN "Reload" ELSE "Stop"
    /\ UNCHANGED <<services, obsVars, startVars, stopVars, reloadVars, rtVars, aggVars, metaVars, confVars, serverVars, abandoned,
                   runPc, runErr, bootPc, bootErr, notified, delivered>>

\* Faulty variant of RuntimeStop: runtime.Stop returns nil without calling
\* serviceManager.Stop.
RuntimeStopNoop ==
    /\ sigPc = "Stop"
    /\ ~crashed
    /\ stopPc = "idle"
    /\ stopPc' = "returned"
    /\ UNCHANGED <<runtimeVars, services, obsVars, stopI, stopping, stopper, fault, await,
                   awaitErr, faults, stopErr, stops, startVars, reloadVars>>

\* runtime.Stop as the goroutine calls it: serviceManager.Stop.
RuntimeStop == sigPc = "Stop" /\ StopBegin

\* Faulty variant of SigStopReturns: the loop is not left after a signal of the
\* terminate class.
SigStopReturnsNoBreak ==
    /\ ~crashed
    /\ sigPc = "Stop"
    /\ stopPc = "returned"
    /\ sigPc' = "range"
    /\ sigCur' = NoSignal
    /\ stopPc' = "idle" /\ stopI' = 0 /\ stopping' = 0
    /\ abandoned' = [u \in Units |->
                       [spawned |-> abandoned[u].spawned + (IF stopper[u] = "spawned" THEN 1 ELSE 0),
                        Stop |-> abandoned[u].Stop + (IF stopper[u] = "Stop" THEN 1 ELSE 0)]]
    /\ stopper' = [u \in Units |-> "none"]
    /\ fault' = [u \in Units |-> <<>>]
    /\ await' = [u \in Units |-> "none"]
    /\ awaitErr' = [u \in Units |-> Nil]
    /\ faults' = <<>> /\ stopErr' = Nil
    /\ UNCHANGED <<services, obsVars, startVars, reloadVars, rtVars, aggVars, metaVars, confVars, serverVars,
                   runPc, runErr, bootPc, bootErr, notified, sig, delivered, sigErr, stops>>

\* runtime.Stop has returned to the goroutine: after a signal of the terminate
\* class the loop is left (break Loop), after SIGHUP the goroutine goes back to
\* the channel. What the call of Stop held (faults, stopping, the channels, the
\* goroutines) is out of reach from here on; the goroutines it left behind,
\* which still are to call service.Stop() or are inside it, go on.
SigStopReturns ==
    /\ ~crashed
    /\ sigPc = "Stop"
    /\ stopPc = "returned"
    /\ sigPc' = IF sigCur \in Terminate THEN "ended" ELSE "range"
    /\ sigCur' = NoSignal
    /\ stopPc' = "idle" /\ stopI' = 0 /\ stopping' = 0
    /\ abandoned' = [u \in Units |->
                       [spawned |-> abandoned[u].spawned + (IF stopper[u] = "spawned" THEN 1 ELSE 0),
                        Stop |-> abandoned[u].Stop + (IF stopper[u] = "Stop" THEN 1 ELSE 0)]]
    /\ stopper' = [u \in Units |-> "none"]
    /\ fault' = [u \in Units |-> <<>>]
    /\ await' = [u \in Units |-> "none"]
    /\ awaitErr' = [u \in Units |-> Nil]
    /\ faults' = <<>> /\ stopErr' = Nil
    /\ UNCHANGED <<services, obsVars, startVars, reloadVars, rtVars, aggVars, metaVars, confVars, serverVars,
                   runPc, runErr, bootPc, bootErr, notified, sig, delivered, sigErr, stops>>

\* A goroutine left behind by an earlier Stop calls service.Stop().
AbandonedCalls(u) ==
    /\ ~crashed
    /\ abandoned[u].spawned > 0
    /\ abandoned' = [abandoned EXCEPT ![u].spawned = @ - 1, ![u].Stop = @ + 1]
    /\ Called("Stop", u)
    /\ UNCHANGED <<services, rets, stopOrder, startVars, stopVars, reloadVars, rtVars, aggVars, metaVars, confVars, serverVars,
                   runPc, runErr, bootPc, bootErr, notified, sig, delivered, sigPc, sigCur, sigErr>>

\* service.Stop() returns in a goroutine left behind: the result goes to a
\* channel that nothing reads.
AbandonedReturns(u, err) ==
    /\ ~crashed
    /\ abandoned[u].Stop > 0
    /\ abandoned' = [abandoned EXCEPT ![u].Stop = @ - 1]
    /\ Returned("Stop", u, err)
    /\ UNCHANGED <<services, calls, stopOrder, startVars, stopVars, reloadVars, rtVars, aggVars, metaVars, confVars, serverVars,
                   runPc, runErr, bootPc, bootErr, notified, sig, delivered, sigPc, sigCur, sigErr>>

\* runtime.Reload as the goroutine calls it, config.load() failing.
RuntimeReloadConfigFails == sigPc = "Reload" /\ ReloadConfigFails

\* runtime.Reload as the goroutine calls it, config.load() succeeding.
RuntimeReloadBegin == sigPc = "Reload" /\ ReloadBegin

\* Faulty variant of SigReloadReturns: runtime.Stop is called after every
\* Reload, failed or not.
SigReloadReturnsAlwaysStops ==
    /\ ~crashed
    /\ sigPc = "Reload"
    /\ reloadPc = "returned"
    /\ sigErr' = reloadErr
    /\ sigPc' = "Stop"
    /\ UNCHANGED sigCur
    /\ reloadPc' = "idle" /\ reloadI' = 1 /\ failedToReload' = <<>> /\ reloadErr' = Nil
    /\ UNCHANGED <<services, obsVars, startVars, stopVars, rtVars, aggVars, metaVars, confVars, serverVars, abandoned,
                   runPc, runErr, bootPc, bootErr, notified, sig, delivered>>

\* runtime.Reload has returned to the goroutine: with an error runtime.Stop is
\* called, without one the goroutine goes back to the channel.
SigReloadReturns ==
    /\ ~crashed
    /\ sigPc = "Reload"
    /\ reloadPc = "returned"
    /\ sigErr' = reloadErr
    /\ IF reloadErr # Nil
         THEN sigPc' = "Stop" /\ UNCHANGED sigCur
         ELSE sigPc' = "range" /\ sigCur' = NoSignal
    /\ reloadPc' = "idle" /\ reloadI' = 1 /\ failedToReload' = <<>> /\ reloadErr' = Nil
    /\ UNCHANGED <<services, obsVars, startVars, stopVars, rtVars, aggVars, metaVars, confVars, serverVars, abandoned,
                   runPc, runErr, bootPc, bootErr, notified, sig, delivered>>

\* The services of runtime.Run: Reloadable, without OnStart and OnStop.
RunKinds == {k \in Kinds : ~k.startHandler /\ ~k.stopHandler /\ k.reloadable}

\* The signals sent to the process: os.Interrupt and SIGTERM share one case of
\* the switch, and SIGTERM stands for both.
SignalsSent == Signals \ {"SIGINT"}

RunNext ==
    \/ ServerRunFails
    \/ ServerRunBegin
    \/ RunBegin
    \/ \E k \in RunKinds : BootService(k)
    \/ BootFails
    \/ BootStart
    \/ RuntimeDelegate
    \/ RuntimeManagerStartEmpty
    \/ RuntimeManagerStartBegin
    \/ StartSpawn
    \/ \E u \in Registered : TaskBegin(u)
    \/ \E u \in Registered : \E err \in {Nil, StartErr(u)} : TaskStartReturns(u, err)
    \/ CloseDone
    \/ StartSelectDone
    \/ \E u \in Registered : StartSelectFail(u)
    \/ RuntimeManagerReturns
    \/ RuntimeStartReturn
    \/ BootReturns
    \/ RunReturn
    \/ ServerRunReturn
    \/ \E s \in SignalsSent : SignalArrives(s)
    \/ SigTake
    \/ RuntimeStop
    \/ StopSpawn
    \/ \E u \in Registered : StopperCalls(u, Unobserved(u))
    \/ \E u \in Registered : \E err \in {Nil, StopErr(u)} : StopperReturns(u, err)
    \/ \E u \in Registered : AwaitFault(u)
    \/ \E u \in Registered : AwaitTimeout(u)
    \/ \E u \in Registered : AwaitAdd(u)
    \/ StopReturn
    \/ SigStopReturns
    \/ \E u \in Registered : AbandonedCalls(u)
    \/ \E u \in Registered : \E err \in {Nil, StopErr(u)} : AbandonedReturns(u, err)
    \/ RuntimeReloadConfigFails
    \/ RuntimeReloadBegin
    \/ \E err \in {Nil, ReloadErr(reloadI)} : ReloadService(err)
    \/ ReloadReturn
    \/ SigReloadReturns

\* server.Run once: the runFunc registers services and calls runtime.Start,
\* while signals arrive and are handled.
RunSpec == Init /\ [][RunNext]_vars

\* The bootstrap function registers one service: the first of the registry.
BootUnits == {1}

\* The steps of the goroutine that called server.Run.
MainSteps ==
    \/ RunBegin \/ BootStart \/ RuntimeDelegate
    \/ RuntimeManagerStartEmpty \/ RuntimeManagerStartBegin \/ StartSpawn
    \/ StartSelectDone \/ (\E u \in Registered : StartSelectFail(u))
    \/ RuntimeManagerReturns \/ RuntimeStartReturn
    \/ BootReturns \/ RunReturn \/ ServerRunReturn

\* The steps of the goroutine that handles the signals.
SignalSteps ==
    \/ SigTake \/ RuntimeStop \/ StopSpawn \/ StopReturn \/ SigStopReturns
    \/ RuntimeReloadConfigFails \/ RuntimeReloadBegin
    \/ (\E err \in {Nil, ReloadErr(reloadI)} : ReloadService(err))
    \/ ReloadReturn \/ SigReloadReturns

\* Every goroutine is scheduled and a timer that was started fires: no
\* goroutine is left for ever with a step it can take. Of a service, what the
\* contract of Stop asks: its Stop returns, and once its Stop has been invoked
\* its pending Start returns. Whether they return nil is the service's choice.
\* A run takes finitely many steps (the signals sent are bounded), so the one
\* condition on all the steps says the same as one condition for each of them.
RunFairness ==
    WF_vars(\/ MainSteps \/ SignalSteps \/ CloseDone
            \/ \E u \in BootUnits :
                 \/ TaskBegin(u)
                 \/ StopperCalls(u, Unobserved(u))
                 \/ AwaitFault(u) \/ AwaitTimeout(u) \/ AwaitAdd(u)
                 \/ AbandonedCalls(u)
                 \/ \E err \in {Nil, StopErr(u)} : StopperReturns(u, err) \/ AbandonedReturns(u, err)
                 \/ calls["Stop"][u] >= 1 /\ \E err \in {Nil, StartErr(u)} : TaskStartReturns(u, err))

FairRunSpec == RunSpec /\ RunFairness

\* ------------------------------------ server.Run: panics, repeated calls
\* server.Run is called while currentRuntime is set: it returns the error.
ServerRunRejected ==
    /\ ~crashed
    /\ serverPc = "idle"
    /\ currentRuntime
    /\ serverErr' = ErrAlreadyRunning
    /\ serverPc' = "returned"
    /\ UNCHANGED <<services, obsVars, startVars, stopVars, reloadVars, rtVars, aggVars, metaVars, confVars, runVars,
                   currentRuntime, panicValue, logged, logClosed, runs, history, serverStopPc, serverStopErr>>

\* server.Run is called again on the same server, after the call before has
\* returned.
ServerRunAgain ==
    /\ ~crashed
    /\ serverPc = "returned"
    /\ runs + 1 < MaxRuns
    /\ runs' = runs + 1
    /\ history' = Append(history, serverErr)
    /\ serverErr' = Nil
    /\ serverPc' = "idle"
    /\ UNCHANGED <<services, obsVars, startVars, stopVars, reloadVars, rtVars, aggVars, metaVars, confVars, runVars,
                   currentRuntime, panicValue, logged, logClosed, serverStopPc, serverStopErr>>

\* The runFunc panics with value v, in its own code: before it calls
\* runtime.Start or after runtime.Start has returned.
BootPanics(v) ==
    /\ ~crashed
    /\ bootPc = "setup" /\ rtPc \in {"idle", "returned"}
    /\ panicValue' = v
    /\ bootPc' = "panicked"
    /\ UNCHANGED <<services, obsVars, startVars, stopVars, reloadVars, rtVars, aggVars, metaVars, confVars, abandoned,
                   serverPc, currentRuntime, serverErr, logged, logClosed, runs, history, serverStopPc, serverStopErr,
                   runPc, runErr, bootErr, notified, sig, delivered, sigPc, sigCur, sigErr>>

\* The panic unwinds runtime.Run: the deferred signal.Stop(sig) runs, and the
\* deferred func finds Run's err nil and prints nothing.
RunUnwinds ==
    /\ ~crashed
    /\ runPc = "runFunc"
    /\ bootPc = "panicked"
    /\ notified' = FALSE
    /\ runPc' = "panicked"
    /\ UNCHANGED <<services, obsVars, startVars, stopVars, reloadVars, rtVars, aggVars, metaVars, confVars, serverVars,
                   abandoned, runErr, bootPc, bootErr, sig, delivered, sigPc, sigCur, sigErr>>

\* The Go releases the program may be built with, as far as recover() goes.
Builds == {"before go1.21", "go1.21"}

\* What recover() returns in the deferred func for a panic with value v: the
\* value; for panic(nil) it is nil before Go 1.21 and a *runtime.PanicNilError
\* from Go 1.21 on.
Recover(v, build) ==
    IF v = "error" THEN ErrPanic
    ELSE IF v = "value" THEN ErrPanicValue
    ELSE IF build = "go1.21" THEN ErrPanicNil
    ELSE Nil

\* The panic reaches server.Run's deferred func: if recover() returns a value
\* other than nil, err becomes it (an error as it is, anything else through
\* fmt.Errorf) and is printed with the stack trace to the container's log;
\* then the deferred container.Close() closes the log and server.Run returns
\* err. The panic ends here in either case.
ServerRecovers(build) ==
    /\ ~crashed
    /\ serverPc = "Run"
    /\ runPc = "panicked"
    /\ serverErr' = (IF Recover(panicValue, build) # Nil THEN Recover(panicValue, build)
                     ELSE serverErr)
    /\ logged' = (IF Recover(panicValue, build) # Nil /\ ~logClosed
                  THEN Append(logged, Recover(panicValue, build))
                  ELSE logged)
    /\ logClosed' = TRUE
    /\ serverPc' = "returned"
    /\ UNCHANGED <<services, obsVars, startVars, stopVars, reloadVars, rtVars, aggVars, metaVars, confVars, runVars,
                   currentRuntime, panicValue, runs, history, serverStopPc, serverStopErr>>

\* server.Run called up to MaxRuns times on one server, with a runFunc that
\* registers a service and starts the runtime, fails, or panics. No signal is
\* sent.
ServerNext ==
    \/ ServerRunRejected
    \/ ServerRunFails
    \/ ServerRunAgain
    \/ ServerRunBegin
    \/ RunBegin
    \/ \E k \in RunKinds : BootService(k)
    \/ BootFails
    \/ \E v \in PanicValues : BootPanics(v)
    \/ BootStart
    \/ RuntimeDelegate
    \/ RuntimeManagerStartEmpty
    \/ RuntimeManagerStartBegin
    \/ StartSpawn
    \/ \E u \in Registered : TaskBegin(u)
    \/ \E u \in Registered : \E err \in {Nil, StartErr(u)} : TaskStartReturns(u, err)
    \/ CloseDone
    \/ StartSelectDone
    \/ \E u \in Registered : StartSelectFail(u)
    \/ RuntimeManagerReturns
    \/ RuntimeStartReturn
    \/ BootReturns
    \/ RunUnwinds
    \/ RunReturn
    \/ \E b \in Builds : ServerRecovers(b)
    \/ ServerRunReturn

ServerSpec == Init /\ [][ServerNext]_vars

\* ------------------------------------- a multiError and its goroutines
\* Everything but the multiError.
besideAgg == <<services, obsVars, startVars, stopVars, reloadVars, rtVars, serverVars, runVars,
               confVars, metaVars>>

\* The number of AddError calls made so far.
Adds == Len(started) + nilAdds

\* AddError(nil): the test err != nil fails and the call returns; the lock is
\* not taken and the list is not touched.
AddErrorNil(w) ==
    /\ wPc[w] = "idle"
    /\ Adds < MaxAdds
    /\ nilAdds' = nilAdds + 1
    /\ UNCHANGED <<besideAgg, aggErrors, mutex, wPc, wErr, wSlice, started, arrival, completed,
                   asErr, asSeen, message, msgSeen>>

\* AddError(err) with an error: the test succeeds, the next step is stop.Lock().
AddErrorCall(w, err) ==
    /\ wPc[w] = "idle"
    /\ Adds < MaxAdds
    /\ err # Nil
    /\ wErr' = [wErr EXCEPT ![w] = err]
    /\ wPc' = [wPc EXCEPT ![w] = "Lock"]
    /\ started' = Append(started, err)
    /\ UNCHANGED <<besideAgg, aggErrors, mutex, wSlice, arrival, completed, nilAdds,
                   asErr, asSeen, message, msgSeen>>

\* Faulty variant of WriterLock: the mutex is taken without waiting for it.
WriterLockBarges(w) ==
    /\ wPc[w] = "Lock"
    /\ mutex' = w
    /\ wPc' = [wPc EXCEPT ![w] = "load"]
    /\ arrival' = Append(arrival, wErr[w])
    /\ UNCHANGED <<besideAgg, aggErrors, wErr, wSlice, started, completed, nilAdds,
                   asErr, asSeen, message, msgSeen>>

\* stop.Lock(): the writer gets the mutex once it is unlocked.
WriterLock(w) ==
    /\ wPc[w] = "Lock"
    /\ mutex = 0
    /\ mutex' = w
    /\ wPc' = [wPc EXCEPT ![w] = "load"]
    /\ arrival' = Append(arrival, wErr[w])
    /\ UNCHANGED <<besideAgg, aggErrors, wErr, wSlice, started, completed, nilAdds,
                   asErr, asSeen, message, msgSeen>>

\* append(stop.errors, err) reads stop.errors.
WriterLoad(w) ==
    /\ wPc[w] = "load"
    /\ wSlice' = [wSlice EXCEPT ![w] = aggErrors]
    /\ wPc' = [wPc EXCEPT ![w] = "store"]
    /\ UNCHANGED <<besideAgg, aggErrors, mutex, wErr, started, arrival, completed, nilAdds,
                   asErr, asSeen, message, msgSeen>>

\* Faulty variant of WriterStore: the new error is put in front of the list.
WriterStorePrepends(w) ==
    /\ wPc[w] = "store"
    /\ aggErrors' = <<wErr[w]>> \o wSlice[w]
    /\ wPc' = [wPc EXCEPT ![w] = "Unlock"]
    /\ UNCHANGED <<besideAgg, mutex, wErr, wSlice, started, arrival, completed, nilAdds,
                   asErr, asSeen, message, msgSeen>>

\* stop.errors = append(...): what was read, with err behind it, is stored.
WriterStore(w) ==
    /\ wPc[w] = "store"
    /\ aggErrors' = AddError(wSlice[w], wErr[w])
    /\ wPc' = [wPc EXCEPT ![w] = "Unlock"]
    /\ UNCHANGED <<besideAgg, mutex, wErr, wSlice, started, arrival, completed, nilAdds,
                   asErr, asSeen, message, msgSeen>>

\* The deferred stop.Unlock(); AddError returns.
WriterUnlock(w) ==
    /\ wPc[w] = "Unlock"
    /\ mutex' = 0
    /\ wPc' = [wPc EXCEPT ![w] = "idle"]
    /\ completed' = Append(completed, wErr[w])
    /\ UNCHANGED <<besideAgg, aggErrors, wErr, wSlice, started, arrival, nilAdds,
                   asErr, asSeen, message, msgSeen>>

\* AsError: Lock, the test of len(stop.errors), the deferred Unlock. The body
\* runs with the mutex held, so it is one step taken when the mutex is unlocked.
AsErrorCall ==
    /\ mutex = 0
    /\ asErr' = AsError(aggErrors, AggRef)
    /\ asSeen' = arrival
    /\ UNCHANGED <<besideAgg, aggErrors, mutex, wPc, wErr, wSlice, started, arrival, completed,
                   nilAdds, message, msgSeen>>

\* Error, called on an aggregate AsError has returned: Lock, the messages are
\* collected and joined, the deferred Unlock.
ErrorCall ==
    /\ asErr = AggRef
    /\ mutex = 0
    /\ message' = Error(aggErrors)
    /\ msgSeen' = arrival
    /\ UNCHANGED <<besideAgg, aggErrors, mutex, wPc, wErr, wSlice, started, arrival, completed,
                   nilAdds, asErr, asSeen>>

MultiErrorNext ==
    \/ \E w \in Writers : AddErrorNil(w)
    \/ \E w \in Writers : AddErrorCall(w, AddedErr(Len(started) + 1))
    \/ \E w \in Writers : WriterLock(w)
    \/ \E w \in Writers : WriterLoad(w)
    \/ \E w \in Writers : WriterStore(w)
    \/ \E w \in Writers : WriterUnlock(w)
    \/ AsErrorCall
    \/ ErrorCall

\* One multiError used by several goroutines at once.
MultiErrorSpec == Init /\ [][MultiErrorNext]_vars

\* ---------------------------------------------------------- all together
Next ==
    \/ \E k \in Kinds : AddService(k)
    \/ StartEmpty
    \/ StartBegin
    \/ StartSpawn
    \/ \E u \in Registered : TaskBegin(u)
    \/ \E u \in Registered : \E err \in {Nil, OnStartErr(u)} : TaskOnStartReturns(u, err)
    \/ \E u \in Registered : \E err \in {Nil, StartErr(u)} : TaskStartReturns(u, err)
    \/ \E u \in Registered : TaskOnStopReturns(u)
    \/ \E u \in Registered : TaskSendPanics(u)
    \/ CloseDone
    \/ StartSelectDone
    \/ \E u \in Registered : StartSelectFail(u)
    \/ StopBegin
    \/ StopSpawn
    \/ \E u \in Registered : StopperCalls(u, Observed(u))
    \/ \E u \in Registered : \E err \in {Nil, StopErr(u)} : StopperReturns(u, err)
    \/ \E u \in Registered : StopperHangs(u)
    \/ \E u \in Registered : AwaitFault(u)
    \/ \E u \in Registered : AwaitTimeout(u)
    \/ \E u \in Registered : AwaitAdd(u)
    \/ StopReturn
    \/ ReloadConfigFails
    \/ ReloadBegin
    \/ \E err \in {Nil, ReloadErr(reloadI)} : ReloadService(err)
    \/ ReloadReturn

Spec == Init /\ [][Next]_vars

\* ========================================================== properties
\* ------------------------------------------------------------------- C1
\* Service k is the only one sending on fail and every other one is still
\* inside its goroutine (in particular blocked in Start).
FailsAlone(k) ==
    /\ task[k] = "send"
    /\ \A j \in Registered \ {k} : task[j] \in {"spawned", "OnStart", "Start", "OnStop"}

\* C1: with service k alone reporting an error while the other services are
\* still running, Start, once in its select, can return at once (it is not made
\* to wait for any other goroutine), and when it returns it returns exactly the
\* error of k and has ended no other goroutine.
C1_FailFast ==
    [][\A k \in Registered :
         (startPc = "select" /\ FailsAlone(k))
           => /\ ENABLED StartSelectFail(k)
              /\ startPc' = "returned"
                   => /\ startErr' = taskErr[k]
                      /\ startErr' \in {OnStartErr(k), StartErr(k)}
                      /\ \A j \in Registered \ {k} : task'[j] = task[j]]_vars

\* C1 happens: of three services the second failed in Start, Start has returned
\* its error, and the two others are still blocked in Start.
C1_Witness ==
    /\ Len(services) = 3
    /\ startPc = "returned"
    /\ startErr = StartErr(2)
    /\ task[1] = "Start" /\ task[3] = "Start"

\* ------------------------------------------------------------------- C2
\* C2: with at least one service and no error reported by any, Start returns
\* nil, and has returned only when every goroutine is over: every Start was
\* called and has returned nil and every OnStop there is has returned.
C2_NilAfterAll ==
    (startPc = "returned" /\ Len(services) >= 1 /\ \A u \in Registered : taskErr[u] = Nil)
      => /\ startErr = Nil
         /\ running = 0
         /\ \A u \in Registered :
              /\ task[u] = "done"
              /\ calls["Start"][u] = 1 /\ rets["Start"][u] = Nil
              /\ services[u].stopHandler
                   => calls["OnStop"][u] = 1 /\ rets["OnStop"][u] = Nil

\* C2 happens: Start has returned nil for three services, one of them with OnStop.
C2_Witness ==
    /\ Len(services) = 3
    /\ startPc = "returned" /\ startErr = Nil
    /\ services[2].stopHandler /\ ~services[1].stopHandler

\* ------------------------------------------------------------------- C3
NothingInvoked == \A m \in Methods : \A u \in Units : calls[m][u] = 0

\* C3: on an empty registry Start never enters its loop or its select, starts no
\* goroutine and invokes nothing; what it returns is the "No services were
\* registered" error.
C3_EmptyRegistry ==
    Len(services) = 0
      => /\ startPc \in {"idle", "returned"}
         /\ running = 0 /\ ~doneClosed /\ ~failClosed
         /\ \A u \in Units : task[u] = "none"
         /\ NothingInvoked
         /\ startPc = "returned" => startErr = ErrNoServices

\* C3 happens: Start has returned on the empty registry.
C3_Witness == Len(services) = 0 /\ startPc = "returned"

\* ------------------------------------------------------------------- C4
\* C4: one call of Stop invokes Stop on no service twice and on no service that
\* is not registered; once its loop is over it has started the stop attempt of
\* every registered service; and every registered service's Stop is invoked in
\* the end, exactly once, whether the Stops of the others return nil, return an
\* error, or never return (no fairness is asked of them), or time out.
C4_EveryServiceOnce ==
    /\ [](\A u \in Units : calls["Stop"][u] <= (IF u \in Registered THEN 1 ELSE 0))
    /\ [](stopPc \in {"wait", "returned"} => \A u \in Registered : stopper[u] # "none")
    /\ (stopPc # "idle") ~> (\A u \in Registered : calls["Stop"][u] = 1)

\* C4 happens: Stop has returned for three services, each invoked once, of which
\* one returned an error, one returned nil and one never returned.
C4_Witness ==
    /\ Len(services) = 3
    /\ stopPc = "returned"
    /\ \A u \in Registered : calls["Stop"][u] = 1
    /\ rets["Stop"][1] = StopErr(1) /\ rets["Stop"][2] = Nil /\ stopper[3] = "hung"

\* ------------------------------------------------------------------- C5
\* How often e is in the list.
Occurrences(errors, e) == Cardinality({i \in 1..Len(errors) : errors[i] = e})

\* The stop attempt of service u ended by the timeout.
TimedOut(u) == await[u] = "done" /\ awaitErr[u] = ErrTimeout

\* C5: when the Stop of a service never returns, Stop returns all the same (its
\* timers fire), and what it returns is the aggregate, which holds the timeout
\* error for that service: one timeout entry for each attempt that timed out.
C5_TimeoutUnblocks ==
    (\E u \in Registered : stopper[u] = "hung")
      ~> /\ stopPc = "returned"
         /\ stopErr = FaultsRef
         /\ \A u \in Registered : stopper[u] = "hung" => TimedOut(u)
         /\ Occurrences(faults, ErrTimeout) = Cardinality({v \in Registered : TimedOut(v)})

\* C5 happens: the second of three services hangs in Stop, the others returned
\* nil in time, and Stop has returned the aggregate with the one timeout error.
C5_Witness ==
    /\ Len(services) = 3
    /\ stopper[2] = "hung"
    /\ stopPc = "returned" /\ stopErr = FaultsRef
    /\ faults = <<ErrTimeout>>

\* ------------------------------------------------------------------- C6
\* The Stop of service u returned nil and the attempt received it before its timeout.
StoppedInTime(u) == await[u] = "done" /\ awaitErr[u] = Nil /\ rets["Stop"][u] = Nil

\* C6: when Stop has returned, every attempt is over, either with what the
\* service's Stop returned or by its timeout; and Stop has returned nil exactly
\* when every service's Stop returned nil before its timeout.
C6_ReturnsAfterAll ==
    stopPc = "returned"
      => /\ stopping = 0
         /\ \A u \in Registered :
              /\ await[u] = "done"
              /\ TimedOut(u) \/ (stopper[u] = "done" /\ awaitErr[u] = rets["Stop"][u])
         /\ stopErr = Nil <=> \A u \in Registered : StoppedInTime(u)

\* C6 happens: Stop has returned nil for three services.
C6_Witness == Len(services) = 3 /\ stopPc = "returned" /\ stopErr = Nil

\* ------------------------------------------------------------------- C7
\* C7: the list Stop returns holds one entry for each service whose attempt
\* ended with an error: the service's own error when its Stop returned one in
\* time, the timeout error when the timeout came first, never both; and
\* nothing for a service whose Stop returned nil in time.
C7_OneEntryPerFault ==
    stopPc = "returned"
      => /\ Len(faults) = Cardinality({u \in Registered : awaitErr[u] # Nil})
         /\ Occurrences(faults, Nil) = 0
         /\ Occurrences(faults, ErrTimeout) = Cardinality({u \in Registered : TimedOut(u)})
         /\ \A u \in Registered :
              /\ awaitErr[u] \in {Nil, StopErr(u), ErrTimeout}
              /\ awaitErr[u] # ErrTimeout => awaitErr[u] = rets["Stop"][u]
              /\ Occurrences(faults, StopErr(u)) = (IF awaitErr[u] = StopErr(u) THEN 1 ELSE 0)

\* C7 happens: of three services one returned nil, one its error and one timed out.
C7_Witness ==
    /\ Len(services) = 3
    /\ stopPc = "returned"
    /\ awaitErr[1] = Nil /\ awaitErr[2] = StopErr(2) /\ awaitErr[3] = ErrTimeout
    /\ Len(faults) = 2

\* ------------------------------------------------------------------- C8
\* The Stop of each of the three registered services returned its error, and
\* each attempt received it before its timeout.
AllThreeFail == Len(services) = 3 /\ \A u \in Registered : awaitErr[u] = StopErr(u)

\* The message of an aggregate that lists the errors of the services in order.
MessageInOrder(order) == Error([i \in 1..Len(order) |-> StopErr(order[i])])

\* C8 as stated: with Stop failing on all of [A, B, C], the message has three
\* entries, in the order in which Stop was called on the services, whatever the
\* order in which the calls complete. The order of the calls is read in every way
\* it can be meant: the order in which Stop was invoked (stopOrder), the order in
\* which the loop starts the calls (C, B, A), and registration order (A, B, C).
C8_CallOrder ==
    (stopPc = "returned" /\ AllThreeFail)
      => /\ Len(faults) = 3
         /\ Error(faults) \in {MessageInOrder(stopOrder), MessageInOrder(<<3, 2, 1>>),
                               MessageInOrder(<<1, 2, 3>>)}

\* C8 amended: the message has exactly three entries, the errors of A, B and C
\* once each, one per line, and their order is the order in which the attempts
\* added them: every addition goes to the end of the list, behind whatever the
\* attempts that completed before have added.
C8_ArrivalOrder ==
    /\ []((stopPc = "returned" /\ AllThreeFail)
            => /\ Len(faults) = 3
               /\ \A u \in Registered : Occurrences(faults, StopErr(u)) = 1
               /\ Error(faults) = faults[1] \o "\n" \o faults[2] \o "\n" \o faults[3])
    /\ [][\A u \in Registered :
            (await[u] = "add" /\ await'[u] = "done" /\ awaitErr[u] # Nil)
              => faults' = Append(faults, awaitErr[u])]_vars
    /\ [][faults' # faults
            => \E u \in Registered : await[u] = "add" /\ await'[u] = "done"]_vars

\* C8 happens: Stop was invoked on C, then B, then A, all three failed, and the
\* message lists B's error first, then A's, then C's.
C8_Witness ==
    /\ stopPc = "returned" /\ AllThreeFail
    /\ stopOrder = <<3, 2, 1>>
    /\ Error(faults) = MessageInOrder(<<2, 1, 3>>)

\* ------------------------------------------------------------------- C9
\* C9 as stated: Stop is invoked on the services in exactly the reverse of
\* registration order: when Stop is invoked on service i, it has been invoked
\* before on every service registered after i.
C9_ReverseInvocation ==
    [][\A i \in Registered :
         calls'["Stop"][i] > calls["Stop"][i]
           => \A j \in Registered : j > i => calls["Stop"][j] >= 1]_vars

\* C9 amended: the stop attempts are started in exactly the reverse of
\* registration order (at every moment the services whose attempt has been
\* started are the ones registered last, and the loop goes on to the one just
\* before them), and Stop is invoked on a service only by its started attempt.
\* The invocations themselves are concurrent and come in any order.
C9_ReverseLaunch ==
    /\ \A i, j \in Registered : (i < j /\ stopper[i] # "none") => stopper[j] # "none"
    /\ stopPc = "loop" => \A u \in Registered : stopper[u] # "none" <=> u > stopI
    /\ \A u \in Registered : calls["Stop"][u] >= 1 => stopper[u] \in {"Stop", "hung", "done"}

\* C9 happens: the attempt of the service registered second was started first,
\* yet Stop has been invoked on the first service and not yet on the second.
C9_Witness ==
    /\ Len(services) = 2
    /\ stopper[2] = "spawned" /\ calls["Stop"][2] = 0
    /\ stopper[1] = "Stop" /\ calls["Stop"][1] = 1

\* ------------------------------------------------------------------ C10
\* The errors returned by the Reload of the services, in registry order.
ReloadFailures ==
    SelectSeq([u \in Registered |-> rets["Reload"][u]], LAMBDA e : e \notin {Nil, NoReturn})

\* C10: when Reload has returned and loading the configuration did not fail,
\* Reload was invoked once on every Reloadable service (and on no other),
\* whatever the ones before it returned; the list holds the error of every
\* service whose Reload failed and nothing else; and Reload returned the
\* aggregate, or nil when no Reload failed.
C10_ReloadsAll ==
    (reloadPc = "returned" /\ reloadErr # ErrConfig)
      => /\ \A u \in Registered :
              calls["Reload"][u] = (IF services[u].reloadable THEN 1 ELSE 0)
         /\ \A u \in Registered : services[u].reloadable <=> rets["Reload"][u] # NoReturn
         /\ failedToReload = ReloadFailures
         /\ reloadErr = (IF Len(ReloadFailures) = 0 THEN Nil ELSE FailedToReloadRef)

\* C10 happens: of three Reloadable services the first and the last failed, the
\* second was reloaded all the same, and Reload returned both errors.
C10_Witness ==
    /\ Len(services) = 3 /\ \A u \in Registered : services[u].reloadable
    /\ reloadPc = "returned" /\ reloadErr = FailedToReloadRef
    /\ rets["Reload"][2] = Nil /\ calls["Reload"][3] = 1
    /\ Error(failedToReload) = ReloadErr(1) \o "\n" \o ReloadErr(3)

\* ------------------------------------------------------------------ C11
\* C11: when loading the configuration fails, Reload returns at that point with
\* the error of the load, and Reload has been invoked on no service, whether
\* Reloadable or not; and a Reload that begins its loop has not failed to load.
C11_ConfigFailureAborts ==
    /\ reloadErr = ErrConfig
         => /\ reloadPc = "returned"
            /\ \A u \in Units : calls["Reload"][u] = 0 /\ rets["Reload"][u] = NoReturn
            /\ failedToReload = <<>>
    /\ reloadPc = "loop" => reloadErr = Nil

\* C11 happens: three Reloadable services are registered, the load failed and
\* Reload has returned its error.
C11_Witness ==
    /\ Len(services) = 3 /\ \A u \in Registered : services[u].reloadable
    /\ reloadPc = "returned" /\ reloadErr = ErrConfig

\* ------------------------------------------------------------------ C12
\* The start half of callback c was called and returned an error.
StartFailed(c) == cbRets[c] \notin {NoReturn, Nil}

\* The callbacks registered before k, the one registered last first.
ReverseBelow(k) == [i \in 1..(k - 1) |-> k - i]

\* C12: when the start half of callback k has failed, no stop half is invoked
\* but those of the callbacks registered before k, the start half of no
\* callback registered after k is invoked, and when Start has returned the stop
\* halves of the callbacks before k have been invoked once each, the most
\* recently started first. In every run a stop half is invoked at most once,
\* and only of a callback whose start half has returned nil; stopCallbacks
\* holds only such callbacks.
C12_UnwindsStartedOnly ==
    /\ \A k \in RegisteredCallbacks :
         StartFailed(k)
           => /\ \A c \in RegisteredCallbacks :
                   /\ c >= k => cbCalls["stop"][c] = 0
                   /\ c > k => cbCalls["start"][c] = 0 /\ cbRets[c] = NoReturn
              /\ rtPc = "returned"
                   => /\ cbStops = ReverseBelow(k)
                      /\ \A c \in 1..(k - 1) : cbCalls["stop"][c] = 1
    /\ \A c \in Callbacks :
         /\ cbCalls["stop"][c] <= (IF c \in RegisteredCallbacks /\ cbRets[c] = Nil THEN 1 ELSE 0)
         /\ cbCalls["stop"][c] = Occurrences(cbStops, c)
    /\ \A i \in 1..Len(stopCallbacks) : cbRets[stopCallbacks[i]] = Nil

\* C12 happens: of three callbacks the second failed to start, and Start has
\* returned after the stop half of the first alone.
C12_Witness ==
    /\ Len(callbacks) = 3
    /\ StartFailed(2)
    /\ rtPc = "returned"
    /\ cbStops = <<1>>

\* ------------------------------------------------------------------ C13
\* Nothing of serviceManager.Start has happened.
ManagerNotStarted ==
    /\ startPc = "idle"
    /\ \A u \in Units : task[u] = "none"
    /\ \A u \in Units : \A m \in {"OnStart", "Start", "OnStop"} : calls[m][u] = 0

\* C13: when the start half of callback k has failed, Start is returning or has
\* returned, what it returns is the error of k, and serviceManager.Start is
\* not called: no OnStart, Start or OnStop of any service is invoked.
C13_FailureSkipsManager ==
    \A k \in RegisteredCallbacks :
        StartFailed(k)
          => /\ rtPc \in {"unwind", "returned"}
             /\ rtErr = cbRets[k] /\ rtErr = CallbackErr(k)
             /\ ManagerNotStarted

\* C13 happens: two services are registered, the last of three callbacks failed
\* to start and Start has returned its error.
C13_Witness ==
    /\ Len(services) = 2 /\ Len(callbacks) = 3
    /\ rtPc = "returned"
    /\ rtErr = CallbackErr(3)

\* ------------------------------------------------------------------ C14
\* The start half of every registered callback has returned nil.
AllStarted == \A c \in RegisteredCallbacks : cbRets[c] = Nil

\* C14: when every start half succeeded, a stop half is invoked only after
\* serviceManager.Start has returned and before Start has; and when Start has
\* returned, with what serviceManager.Start returned, nil or an error, the stop
\* half of every callback has been invoked exactly once, in the reverse of
\* registration order.
C14_UnwindsAllAfterManager ==
    /\ []((rtPc = "returned" /\ AllStarted)
            => /\ startPc = "returned" /\ rtErr = startErr
               /\ cbStops = ReverseBelow(Len(callbacks) + 1)
               /\ \A c \in RegisteredCallbacks : cbCalls["stop"][c] = 1)
    /\ []((rtPc \in {"idle", "callbacks", "manager"}) => cbStops = <<>>)
    /\ [][(cbStops' # cbStops /\ AllStarted)
            => /\ startPc = "returned"
               /\ rtPc = "unwind" /\ rtPc' = "unwind"]_vars

\* C14 happens: three callbacks started, serviceManager.Start returned the error
\* of a service, and Start has returned it after the three stop halves, last
\* registered first.
C14_Witness ==
    /\ Len(callbacks) = 3 /\ AllStarted
    /\ rtPc = "returned"
    /\ rtErr = StartErr(1)
    /\ cbStops = <<3, 2, 1>>

\* ------------------------------------------------------------------ C15
\* C15 as stated: no stop half of a callback is invoked while the Start of a
\* service is executing.
C15_TeardownAfterServices ==
    [][cbStops' # cbStops => \A u \in Registered : task[u] # "Start"]_vars

\* ------------------------------------------------------------------ C16
\* C16: the start halves are called one at a time in registration order, each
\* at most once, a callback's only when the one before it has returned nil; and
\* as long as the start half of some registered callback has not returned nil,
\* serviceManager.Start is not called and no OnStart or Start of a service is
\* invoked.
C16_CallbacksBeforeServices ==
    /\ \A c \in Callbacks :
         /\ cbCalls["start"][c] <= (IF c \in RegisteredCallbacks THEN 1 ELSE 0)
         /\ (c > 1 /\ cbCalls["start"][c] = 1) => cbRets[c - 1] = Nil
         /\ rtPc = "callbacks" => (cbCalls["start"][c] = 1 <=> c < cbI)
    /\ ~AllStarted => ManagerNotStarted /\ rtPc # "manager"

\* C16 happens: three callbacks have started, in their order, and the Start of
\* a service has been invoked.
C16_Witness ==
    /\ Len(callbacks) = 3 /\ AllStarted
    /\ \A c \in RegisteredCallbacks : cbCalls["start"][c] = 1
    /\ \E u \in Registered : calls["Start"][u] = 1

\* ------------------------------------------------------------------ C17
\* The goroutine receives a signal from the channel in this step.
Takes(s) == sigPc = "range" /\ sigPc' # "range" /\ sig # <<>> /\ Head(sig) = s

\* A call of serviceManager.Stop begins in this step.
StopTriggered == stopPc = "idle" /\ stopPc' # "idle"

\* A call of serviceManager.Reload begins in this step.
ReloadTriggered == reloadPc = "idle" /\ reloadPc' # "idle"

\* C17: a signal of the terminate class that the goroutine receives makes it
\* call Stop; Stop begins only on behalf of the signal being handled, once (the
\* goroutine goes on only when that Stop has returned); after it the goroutine
\* has ended, and from then on no Stop and no Reload begins and no signal is
\* received, whatever arrives on the channel.
C17_TerminateStopsOnceAndEnds ==
    /\ [][\A s \in Terminate :
            Takes(s) => sigPc' = "Stop" /\ sigCur' = s /\ stopPc = "idle"]_vars
    /\ [][StopTriggered => sigPc = "Stop" /\ sigPc' = "Stop"]_vars
    /\ [][(sigPc = "Stop" /\ sigPc' # "Stop")
            => /\ stopPc = "returned" /\ stopPc' = "idle"
               /\ sigCur \in Terminate => sigPc' = "ended"]_vars
    /\ [][sigPc = "ended"
            => /\ sigPc' = "ended"
               /\ ~StopTriggered /\ ~ReloadTriggered
               /\ calls'["Reload"] = calls["Reload"]
               /\ Len(sig') >= Len(sig)]_vars

\* C17 happens: SIGTERM was handled with one Stop of the service, the goroutine
\* has ended, and the SIGHUP that came after it stays on the channel.
C17_Witness ==
    /\ sigPc = "ended"
    /\ sig = <<"SIGHUP">>
    /\ Len(services) = 1 /\ calls["Stop"][1] = 1 /\ calls["Reload"][1] = 0

\* ------------------------------------------------------------------ C18
\* C18: a SIGHUP that the goroutine receives makes it call Reload; Reload
\* begins only on behalf of the SIGHUP being handled, once; when it has
\* returned, Stop is called if it returned an error and only then; and after
\* the Reload, or after that Stop, the goroutine is back at the channel, where
\* it receives the next signal.
C18_ReloadThenStopOnError ==
    /\ [][Takes("SIGHUP") => sigPc' = "Reload" /\ sigCur' = "SIGHUP" /\ reloadPc = "idle"]_vars
    /\ [][ReloadTriggered => sigPc = "Reload" /\ sigPc' = "Reload" /\ sigCur = "SIGHUP"]_vars
    /\ [][(sigPc = "Reload" /\ sigPc' # "Reload")
            => /\ reloadPc = "returned" /\ reloadPc' = "idle"
               /\ sigErr' = reloadErr
               /\ sigPc' = (IF reloadErr # Nil THEN "Stop" ELSE "range")]_vars
    /\ [][(sigPc = "Stop" /\ sigCur = "SIGHUP")
            => /\ sigErr # Nil
               /\ sigPc' # "Stop" => sigPc' = "range"]_vars
    /\ []((sigPc = "range" /\ sig # <<>> /\ ~crashed) => ENABLED SigTake)

\* C18 happens: two SIGHUPs were handled; the Reload of the first failed and
\* was followed by a Stop, the Reload of the second succeeded and was not.
C18_Witness ==
    /\ Len(services) = 1
    /\ delivered = 2 /\ sig = <<>> /\ sigPc = "range"
    /\ calls["Reload"][1] = 2 /\ calls["Stop"][1] = 1
    /\ sigErr = Nil

\* ------------------------------------------------------------------ C19
\* C19: when Run has returned, the runFunc has, and what Run returned is what
\* the runFunc returned, whatever the goroutine's Stop and Reload returned;
\* server.Run in turn returns what Run returned.
C19_RunReturnsBootstrapValue ==
    /\ runPc = "returned" => bootPc = "returned" /\ runErr = bootErr
    /\ (serverPc = "returned" /\ runPc = "returned") => serverErr = runErr
    /\ (bootPc = "returned" /\ rtPc = "returned") => bootErr = rtErr

\* C19 happens: the Reload of a SIGHUP failed, and Run has returned the nil the
\* runFunc returned.
C19_Witness ==
    /\ runPc = "returned"
    /\ sigErr = ErrConfig
    /\ rtPc = "returned" /\ bootErr = Nil /\ runErr = Nil

\* ------------------------------------------------------------------ C20
\* The goroutine has received a signal of the terminate class and is about to
\* call Stop, while the Start of every registered service is executing.
TerminateWhileRunning ==
    /\ sigPc = "Stop" /\ sigCur \in Terminate /\ stopPc = "idle"
    /\ Len(services) >= 1
    /\ \A u \in Registered : task[u] = "Start"

\* The Stop or the Start of some service returned an error.
ServiceFailed ==
    \E u \in Registered : rets["Stop"][u] = StopErr(u) \/ rets["Start"][u] = StartErr(u)

\* runtime.Start returned nil to the runFunc and server.Run has returned nil.
CleanShutdown ==
    /\ rtPc = "returned" /\ rtErr = Nil
    /\ bootPc = "returned" /\ bootErr = Nil
    /\ serverPc = "returned" /\ serverErr = Nil

\* C20: a signal of the terminate class received while every service is
\* running leads to a clean shutdown, runtime.Start and server.Run returning
\* nil, unless the Stop or the Start of a service returns an error; this
\* whether each Stop returns before its timeout or after it.
C20_TerminateShutsDownCleanly == TerminateWhileRunning ~> (CleanShutdown \/ ServiceFailed)

\* C20 happens: SIGTERM was handled while the service was running, its Stop
\* and its Start returned nil, and server.Run has returned nil.
C20_Witness ==
    /\ CleanShutdown /\ ~ServiceFailed
    /\ sigPc = "ended"
    /\ Len(services) = 1 /\ calls["Stop"][1] = 1
    /\ rets["Stop"][1] = Nil /\ rets["Start"][1] = Nil

\* ------------------------------------------------------------------ C21
\* The goroutine of u has the error OnStart returned in hand and is at its send
\* on fail, or Start has received it from fail and returned it.
ReportedOnFail(u, err) ==
    \/ task[u] = "send" /\ taskErr[u] = err
    \/ task[u] = "done" /\ taskErr[u] = err /\ startPc = "returned" /\ startErr = err

\* C21: of a service that is a startHandler, OnStart is invoked once, by its
\* goroutine as it begins, and Start only after OnStart has returned nil; once
\* OnStart has returned an error, neither Start nor OnStop of that service is
\* invoked, and the error goes to the send on fail, the channel Start selects on.
C21_OnStartOnceAndFirst ==
    \A u \in Registered :
      services[u].startHandler =>
        /\ calls["OnStart"][u] = (IF task[u] \in {"none", "spawned"} THEN 0 ELSE 1)
        /\ calls["Start"][u] >= 1 => rets["OnStart"][u] = Nil
        /\ rets["OnStart"][u] = OnStartErr(u)
             => /\ calls["Start"][u] = 0
                /\ calls["OnStop"][u] = 0
                /\ ReportedOnFail(u, OnStartErr(u))

\* C21 happens: the OnStart of service 2 failed and Start returned its error,
\* while service 1 went through OnStart and is in Start.
C21_Witness ==
    /\ Len(services) >= 2
    /\ services[1].startHandler /\ services[2].startHandler
    /\ rets["OnStart"][2] = OnStartErr(2) /\ calls["Start"][2] = 0
    /\ startPc = "returned" /\ startErr = OnStartErr(2)
    /\ rets["OnStart"][1] = Nil /\ task[1] = "Start"

\* ------------------------------------------------------------------ C22
\* C22: of a service that is a stopHandler, OnStop has been invoked once as soon
\* as its Start has returned nil, whether Stop had been invoked on the service
\* before or not, and it is not invoked as long as Start has not returned, when
\* Start returned an error, or when Start was never called.
C22_OnStopOnceAfterCleanStart ==
    \A u \in Registered :
      services[u].stopHandler =>
        /\ calls["OnStop"][u] = (IF rets["Start"][u] = Nil THEN 1 ELSE 0)
        /\ calls["Start"][u] = 0 => calls["OnStop"][u] = 0

\* C22 happens: Stop was invoked on the running service, its Start then
\* returned nil and its OnStop was invoked and has returned.
C22_Witness ==
    /\ Len(services) = 1 /\ services[1].stopHandler
    /\ calls["Stop"][1] = 1
    /\ rets["Start"][1] = Nil
    /\ calls["OnStop"][1] = 1 /\ rets["OnStop"][1] = Nil
    /\ task[1] = "done"

\* ------------------------------------------------------------------ C23
\* A step of serviceManager.Start's own thread that returns an error, or a step
\* runtime.Start takes after serviceManager.Start has returned one.
FailFastStep ==
    \/ startPc = "select" /\ startPc' = "returned" /\ startErr' # Nil
    \/ /\ startPc = "returned" /\ startErr # Nil
       /\ (rtPc' # rtPc \/ unwindI' # unwindI \/ cbStops' # cbStops)

\* C23: when serviceManager.Start returns the first error, and while
\* runtime.Start unwinds and returns it, Stop is invoked on no service, no
\* serviceManager.Stop is begun, and every service whose Start is executing is
\* left as it is, still inside Start; during runtime.Start no Stop is invoked
\* on any service at all.
C23_FailFastLeavesSiblings ==
    /\ [](stopPc = "idle" /\ \A u \in Registered : calls["Stop"][u] = 0 /\ stopper[u] = "none")
    /\ [][FailFastStep
            => /\ \A v \in Registered : task[v] = "Start" => task'[v] = "Start"
               /\ \A v \in Registered : task'[v] = task[v] \/ task[v] = "send"
               /\ calls' = calls
               /\ stopVars' = stopVars]_vars

\* C23 happens: the Start of service 2 failed, serviceManager.Start and
\* runtime.Start have returned its error, and service 1 is still inside Start,
\* with Stop invoked on neither.
C23_Witness ==
    /\ Len(services) = 2
    /\ startPc = "returned" /\ startErr = StartErr(2)
    /\ rtPc = "returned" /\ rtErr = StartErr(2)
    /\ task[1] = "Start" /\ rets["Start"][1] = NoReturn
    /\ calls["Stop"][1] = 0 /\ calls["Stop"][2] = 0

\* ------------------------------------------------------------------ C24
\* The timeout of the attempt for service u has fired.
TimeoutFired(u) == await[u] \in {"add", "done"} /\ awaitErr[u] = ErrTimeout

\* C24: the timeout of an attempt leaves the goroutine inside service.Stop() as
\* it is, and that Stop can still return; what it returns after the timeout stays
\* in the channel nobody reads any more and is never added to the list; and once
\* Stop has returned, neither the list nor the value returned changes.
C24_LateResultUnobservable ==
    /\ [](\A u \in Registered :
            TimeoutFired(u)
              => /\ Occurrences(faults, StopErr(u)) = 0
                 /\ stopper[u] = "Stop" => ENABLED StopperReturns(u, StopErr(u))
                 /\ stopper[u] = "done" => fault[u] = <<rets["Stop"][u]>>)
    /\ [][\A u \in Registered :
            (await[u] = "select" /\ TimeoutFired(u)')
              => stopper' = stopper /\ calls' = calls /\ fault' = fault]_vars
    /\ [][\A u \in Registered :
            (TimeoutFired(u) /\ stopper[u] = "Stop" /\ stopper'[u] = "done")
              => faults' = faults /\ stopErr' = stopErr /\ awaitErr' = awaitErr]_vars
    /\ [][stopPc = "returned" => faults' = faults /\ stopErr' = stopErr]_vars

\* C24 happens: the attempt for service 2 timed out, Stop has returned the
\* aggregate, and then the Stop of service 2 returned its error, which is in the
\* channel and not in the list.
C24_Witness ==
    /\ stopPc = "returned" /\ stopErr = FaultsRef
    /\ Len(services) >= 2
    /\ TimedOut(2)
    /\ stopper[2] = "done" /\ rets["Stop"][2] = StopErr(2)
    /\ fault[2] = <<StopErr(2)>>
    /\ Occurrences(faults, StopErr(2)) = 0
    /\ Occurrences(faults, ErrTimeout) >= 1

\* ------------------------------------------------------------------ C25
\* Service u implements none of the optional interfaces.
Hookless(u) ==
    ~services[u].startHandler /\ ~services[u].stopHandler /\ ~services[u].reloadable

\* The errors the calls made on the services have returned.
ReturnedErrors ==
    {rets[m][v] : m \in Methods, v \in Registered} \ {Nil, NoReturn}

\* C25: of a service without any hook, Start is the only method
\* serviceManager.Start calls, once, and Reload is never called; the error its
\* goroutine sends on fail, if any, is the one its Start returned; the list of
\* Reload and the results of Start and Reload hold only errors that a call on
\* some service returned (or the error of the configuration); and a registry of
\* such services only is reloaded with nil.
C25_HooklessHandled ==
    /\ \A u \in Registered :
         Hookless(u)
           => /\ calls["OnStart"][u] = 0 /\ calls["OnStop"][u] = 0 /\ calls["Reload"][u] = 0
              /\ calls["Start"][u] = (IF task[u] \in {"none", "spawned"} THEN 0 ELSE 1)
              /\ taskErr[u] \in {Nil, rets["Start"][u]}
              /\ rets["Start"][u] = Nil => task[u] = "done"
    /\ \A i \in 1..Len(failedToReload) : failedToReload[i] \in ReturnedErrors
    /\ startErr \in {Nil} \cup ReturnedErrors
    /\ reloadErr \in {Nil, ErrConfig, FailedToReloadRef}
    /\ (reloadPc = "returned" /\ reloadErr = FailedToReloadRef)
         => \E v \in Registered : rets["Reload"][v] = ReloadErr(v)
    /\ (\A u \in Registered : Hookless(u)) => failedToReload = <<>>

\* C25 happens: service 1 has no hook and service 2 has all; both were started,
\* the Start of service 1 returned nil, and Reload went over both and returned
\* the error of service 2 alone.
C25_Witness ==
    /\ Len(services) = 2 /\ Hookless(1) /\ services[2].reloadable
    /\ calls["Start"][1] = 1 /\ rets["Start"][1] = Nil /\ task[1] = "done"
    /\ task[2] = "Start"
    /\ reloadPc = "returned" /\ reloadErr = FailedToReloadRef
    /\ failedToReload = <<ReloadErr(2)>>

\* ------------------------------------------------------------------ C26
\* No AddError call is under way.
NoAddUnderWay == \A w \in Writers : wPc[w] = "idle"

\* C26: whatever the interleaving of the writers, the list holds every error
\* whose AddError call has returned and no error that no call was given, each
\* once; so with k calls given an error and all of them returned, the list
\* holds exactly those k errors.
C26_NoErrorDropped ==
    /\ \A n \in 1..MaxAdds :
         /\ Occurrences(completed, AddedErr(n)) <= Occurrences(aggErrors, AddedErr(n))
         /\ Occurrences(aggErrors, AddedErr(n)) <= Occurrences(started, AddedErr(n))
    /\ Len(aggErrors) <= Len(started)
    /\ NoAddUnderWay
         => /\ Len(aggErrors) = Len(started)
            /\ \A n \in 1..Len(started) : Occurrences(aggErrors, AddedErr(n)) = 1

\* C26 happens: three writers were inside AddError at the same time, the one
\* that called last got the lock first, and the list holds the three errors.
C26_Witness ==
    /\ NoAddUnderWay
    /\ Len(started) = 3 /\ Len(aggErrors) = 3
    /\ arrival[1] = AddedErr(3)
    /\ completed[3] = AddedErr(1)

\* ------------------------------------------------------------------ C27
\* C27: AsError returns nil when no call of AddError with an error has taken
\* effect before it, and the aggregate otherwise, however many calls were
\* given nil; a call given nil changes nothing of the multiError; and nil is
\* never in the list.
C27_NilIffNothingAdded ==
    /\ [](asErr # NoReturn
            => /\ asErr = Nil <=> asSeen = <<>>
               /\ asErr # Nil => asErr = AggRef)
    /\ [](Occurrences(aggErrors, Nil) = 0)
    /\ [](started = <<>> => aggErrors = <<>> /\ ENABLED AsErrorCall)
    /\ [][nilAdds' # nilAdds
            => aggErrors' = aggErrors /\ mutex' = mutex /\ arrival' = arrival]_vars
    /\ [][asErr' # asErr => (asErr' = Nil <=> aggErrors = <<>>)]_vars

\* C27 happens: AsError returned nil on a multiError that had only been given
\* nil, twice, and no error yet.
C27_Witness ==
    /\ asErr = Nil
    /\ nilAdds = 2 /\ started = <<>>
    /\ aggErrors = <<>>

\* ------------------------------------------------------------------ C28
RECURSIVE Lines(_)
\* The messages, one per line: each one but the first follows a newline.
Lines(msgs) ==
    IF Len(msgs) = 0 THEN ""
    ELSE IF Len(msgs) = 1 THEN msgs[1]
    ELSE Lines(SubSeq(msgs, 1, Len(msgs) - 1)) \o "\n" \o msgs[Len(msgs)]

\* C28: the message of an aggregate AsError returned is, when Error is called,
\* the messages of the errors added until then, one per line, in the order in
\* which the calls of AddError took effect (got the lock), whatever the order
\* in which the calls were made; and outside AddError the list is in that order.
C28_MessageInArrivalOrder ==
    /\ message # NoReturn => message = Lines(msgSeen)
    /\ message # NoReturn => Len(msgSeen) >= 1
    /\ mutex = 0 => aggErrors = arrival

\* C28 happens: the call made second took effect first, and the message lists
\* its error first.
C28_Witness ==
    /\ started = <<AddedErr(1), AddedErr(2), AddedErr(3)>>
    /\ message = AddedErr(2) \o "\n" \o AddedErr(3) \o "\n" \o AddedErr(1)

\* ------------------------------------------------------------------ C29
\* C29 as stated: whatever the runFunc panics with, the panic ends in
\* server.Run, which returns a non-nil error made of the panic's value, after
\* printing it to the container's log and before closing that log.
C29_PanicBecomesError ==
    [][(serverPc = "Run" /\ runPc = "panicked" /\ serverPc' = "returned")
         => /\ ~crashed'
            /\ serverErr' # Nil
            /\ ~logClosed /\ logged' = Append(logged, serverErr')
            /\ logClosed']_vars

\* ------------------------------------------------------------------ C30
\* The call of server.Run before this one returned the error of newContainer.
AfterContainerFailure == runs >= 1 /\ history[runs] = ErrContainer

\* C30: when newContainer fails, server.Run returns its error and has touched
\* nothing: currentRuntime is still unset, no runtime was run and the runFunc
\* was not called; so the next call of server.Run is not rejected but goes on
\* to newContainer, and 'already running' is never what follows such a failure.
C30_ContainerFailureLeavesIdle ==
    /\ [][(serverPc = "idle" /\ serverPc' = "returned" /\ serverErr' = ErrContainer)
            => /\ ~currentRuntime'
               /\ runPc' = "idle" /\ bootPc' = "idle"
               /\ runVars' = runVars /\ rtVars' = rtVars /\ services' = services]_vars
    /\ []((serverPc = "idle" /\ AfterContainerFailure)
            => /\ ~currentRuntime
               /\ bootPc = "idle"
               /\ ENABLED ServerRunBegin
               /\ ~ENABLED ServerRunRejected)
    /\ []((serverErr = ErrAlreadyRunning /\ serverPc = "returned") => ~AfterContainerFailure)

\* C30 happens: the first call failed in newContainer, and the second call has
\* got as far as the runFunc.
C30_Witness ==
    /\ runs = 1 /\ history = <<ErrContainer>>
    /\ serverPc = "Run" /\ currentRuntime
    /\ bootPc = "setup"

\* ------------------------------------------- the configuration and its files
\* Everything but the configuration.
besideConf == <<services, obsVars, startVars, stopVars, reloadVars, rtVars, serverVars, runVars,
                aggVars, metaVars>>

\* config.SetPath, while the server is being set up (Server.Config).
SetPath(p) ==
    /\ loadErr = NoReturn
    /\ config' = [config EXCEPT !.path = p]
    /\ fresh' = FALSE
    /\ UNCHANGED <<besideConf, disk, optDefaults, optOverrides, loadErr>>

\* config.SetDefaultPath, while the server is being set up.
SetDefaultPath(p) ==
    /\ loadErr = NoReturn
    /\ config' = [config EXCEPT !.defaultPath = p]
    /\ fresh' = FALSE
    /\ UNCHANGED <<besideConf, disk, optDefaults, optOverrides, loadErr>>

\* config.SetOverridePath, while the server is being set up.
SetOverridePath(p) ==
    /\ loadErr = NoReturn
    /\ config' = [config EXCEPT !.overridePath = p]
    /\ fresh' = FALSE
    /\ UNCHANGED <<besideConf, disk, optDefaults, optOverrides, loadErr>>

\* Server.DefaultOption, config.DefaultOption, while the server is being set
\* up: the option is added to Defaults.
DefaultOption(k, value) ==
    /\ loadErr = NoReturn
    /\ config' = [config EXCEPT !.Defaults = AddOption(@, k, value)]
    /\ optDefaults' = AddOption(optDefaults, k, value)
    /\ fresh' = FALSE
    /\ UNCHANGED <<besideConf, disk, optOverrides, loadErr>>

\* Server.OverrideOption, config.OverrideOption, while the server is being set
\* up: the option is added to Overrides.
OverrideOption(k, value) ==
    /\ loadErr = NoReturn
    /\ config' = [config EXCEPT !.Overrides = AddOption(@, k, value)]
    /\ optOverrides' = AddOption(optOverrides, k, value)
    /\ fresh' = FALSE
    /\ UNCHANGED <<besideConf, disk, optDefaults, loadErr>>

\* The path the config has for file f; "" when it has none.
PathFor(f) ==
    IF f = "main" THEN config.path
    ELSE IF f = "defaults" THEN config.defaultPath
    ELSE config.overridePath

\* Somebody writes file f, one of the files the config has the path of.
WriteFile(f, content) ==
    /\ PathFor(f) # ""
    /\ disk' = [disk EXCEPT ![f] = content]
    /\ disk' # disk
    /\ fresh' = FALSE
    /\ UNCHANGED <<besideConf, config, optDefaults, optOverrides, loadErr>>

\* config.load(), as newContainer and serviceManager.Reload call it.
ConfigLoad ==
    /\ \E unreadable \in SUBSET FileNames : Loads(unreadable)
    /\ UNCHANGED besideConf

\* A server is set up, with options and files, and its configuration loaded
\* and loaded again.
ConfigNext ==
    \/ \E p \in {"", PathOf("main")} : SetPath(p)
    \/ SetDefaultPath(PathOf("defaults"))
    \/ SetOverridePath(PathOf("overrides"))
    \/ \E k \in Keys : DefaultOption(k, DefaultValue)
    \/ \E k \in Keys : OverrideOption(k, OverrideValue)
    \/ \E f \in FileNames : \E content \in Contents(f) : WriteFile(f, content)
    \/ ConfigLoad

ConfigSpec == Init /\ [][ConfigNext]_vars

\* ------------------------------------------------------------------ C31
\* The value of option k in the loaded configuration; NoOption when it has none.
Value(k) == config.ConfigFile[k]

\* C31: when load has returned nil and nothing has changed since, every option
\* has the value OverrideOption was given for it; else the value the config
\* file has for it, when there is a config file and it has the option; else the
\* value DefaultOption was given for it.
C31_OverrideFileDefault ==
    (loadErr = Nil /\ fresh) =>
        \A k \in Keys :
            IF HasOption(optOverrides, k) THEN Value(k) = optOverrides[k]
            ELSE IF config.path # "" /\ HasOption(disk["main"], k) THEN Value(k) = disk["main"][k]
            ELSE HasOption(optDefaults, k) => Value(k) = optDefaults[k]

\* ------------------------------------------------- the container's metadata
\* Everything but the metadata.
besideMeta == <<services, obsVars, startVars, stopVars, reloadVars, rtVars, serverVars, runVars,
                aggVars, confVars>>

\* NewServer(name, version): the name and the version the container is given.
NewServer(n, v) ==
    /\ name = "" /\ version = ""
    /\ nameRet = NoReturn /\ versionRet = NoReturn
    /\ name' = n /\ version' = v
    /\ UNCHANGED <<besideMeta, nameRet, versionRet>>

\* A call of container.Name().
ContainerName ==
    /\ nameRet' = Name(name)
    /\ UNCHANGED <<besideMeta, name, version, versionRet>>

\* A call of container.Version().
ContainerVersion ==
    /\ versionRet' = Version(version)
    /\ UNCHANGED <<besideMeta, name, version, nameRet>>

MetadataNext ==
    \/ \E n \in Strings : \E v \in Strings : NewServer(n, v)
    \/ ContainerName
    \/ ContainerVersion

\* A server is created and its container asked for its name and its version.
MetadataSpec == Init /\ [][MetadataNext]_vars

\* ------------------------------------------------------------------ C32
\* C32: Name returns the name the container was given when that is not empty
\* and "app" when it is; Version returns the version it was given when that is
\* not empty and "unreleased" when it is.
C32_NameAndVersionDefaults ==
    /\ (nameRet # NoReturn /\ name # "") => nameRet = name
    /\ (nameRet # NoReturn /\ name = "") => nameRet = "app"
    /\ (versionRet # NoReturn /\ version # "") => versionRet = version
    /\ (versionRet # NoReturn /\ version = "") => versionRet = "unreleased"

\* C32 happens: a container without a name, of version 0.9.4b1, was asked for
\* both.
C32_Witness ==
    /\ name = "" /\ nameRet = "app"
    /\ version = "0.9.4b1" /\ versionRet = "0.9.4b1"

\* ------------------------------------------------------------------ C33
\* C33: no goroutine of Start is at its send on fail when fail is closed, and
\* none has panicked sending on it: every service that fails, with the first
\* one or after Start has returned, ends without a panic.
C33_NoSendOnClosedFail ==
    /\ \A u \in Registered : task[u] = "send" => ~failClosed
    /\ ~crashed

\* ------------------------------------------------------------------ C34
\* The errors the OnStart and the Start of the services have returned so far.
ErrorsReturned ==
    {rets[m][u] : m \in {"OnStart", "Start"}, u \in Registered} \ {NoReturn, Nil}

\* C34: when Start has returned and the OnStart or the Start of some service
\* had returned an error, Start has returned one of these errors, not nil; and
\* done is not closed while a goroutine waits to send its error, so the branch
\* of done cannot be taken in its place.
C34_ErrorNeverMasked ==
    /\ (startPc = "returned" /\ ErrorsReturned # {}) => startErr \in ErrorsReturned
    /\ (startPc = "select" /\ \E u \in Registered : task[u] = "send") => ~doneClosed

\* C34 happens: of three services one has ended cleanly, the Start of the two
\* others returned an error, and Start has returned the error of the third.
C34_Witness ==
    /\ Len(services) = 3
    /\ startPc = "returned"
    /\ task[1] = "done" /\ rets["Start"][1] = Nil
    /\ rets["Start"][2] = StartErr(2)
    /\ startErr = StartErr(3)

\* ------------------------------------------------------------------ C35
\* The goroutine of Run has received a signal of the terminate class.
TerminateReceived == sigPc = "Stop" /\ sigCur \in Terminate

\* C35: once a signal of the terminate class has been received, runtime.Run
\* returns in the end, every Stop returning and the Start of a service
\* returning once its Stop has been invoked; also when the signal is received
\* before the runFunc has called runtime.Start.
C35_TerminateEndsRun == TerminateReceived ~> (runPc = "returned")

\* ------------------------------------------------------------------ C36
\* C36 as claimed: whatever signals are sent, Stop is invoked at most once on
\* each registered service.
C36_StopAtMostOnce == \A u \in Registered : calls["Stop"][u] <= 1

\* C36, amended: Stop is invoked on each registered service at most once for
\* each call of serviceManager.Stop; and in Run that call is made, one at a
\* time, by the goroutine for the signal it is handling: a signal of the
\* terminate class, or a SIGHUP whose Reload returned an error.
C36_StopOncePerStopCall ==
    /\ [](\A u \in Registered : calls["Stop"][u] <= stops)
    /\ [][stops' # stops
            => /\ stops' = stops + 1
               /\ sigPc = "Stop" /\ stopPc = "idle"
               /\ sigCur \in Terminate \/ (sigCur = "SIGHUP" /\ sigErr # Nil)]_vars

\* C36 happens: the Reload of a SIGHUP failed and a SIGTERM followed; Stop was
\* called for either, and the Stop of the service was invoked twice.
C36_Witness ==
    /\ Len(services) = 1
    /\ sigPc = "ended"
    /\ stops = 2 /\ calls["Stop"][1] = 2
    /\ calls["Reload"][1] = 1 /\ rets["Reload"][1] = ReloadErr(1)

\* ------------------------------------------------------------------ C37
\* runtime.Run of a call of server.Run is executing.
RunInProgress == runPc \notin {"idle", "returned", "panicked"}

\* C37: server.Run returns 'server is already running' only while an earlier
\* call has not returned; once every earlier call has returned, cleanly or with
\* an error, a call is not rejected but goes on to run the server.
C37_RejectedOnlyWhileRunning ==
    /\ (serverPc = "returned" /\ serverErr = ErrAlreadyRunning) => RunInProgress
    /\ (serverPc = "idle" /\ ~RunInProgress) => (ENABLED ServerRunBegin /\ ~ENABLED ServerRunRejected)

\* ------------------------------------------------------------ server.Stop
\* server.Stop is called by a goroutine other than the one inside server.Run.
ErrNotRunning == "server is not currently running"

\* What a call of server.Stop leaves alone besides the server's own fields.
besideServerStop ==
    <<services, obsVars, startVars, reloadVars, rtVars, aggVars, metaVars, confVars,
      runPc, runErr, bootPc, bootErr, notified, sig, delivered, sigPc, sigCur, sigErr,
      serverPc, serverErr, panicValue, logged, logClosed, runs, history>>

\* server.Stop finds currentRuntime nil and returns the error.
ServerStopNotRunning ==
    /\ ~crashed
    /\ serverStopPc = "idle"
    /\ ~currentRuntime
    /\ serverStopPc' = "returned"
    /\ serverStopErr' = ErrNotRunning
    /\ UNCHANGED <<besideServerStop, stopVars, abandoned, currentRuntime>>

\* server.Stop finds currentRuntime set and calls its Stop.
ServerStopCall ==
    /\ ~crashed
    /\ serverStopPc = "idle"
    /\ currentRuntime
    /\ serverStopPc' = "Stop"
    /\ UNCHANGED <<besideServerStop, stopVars, abandoned, currentRuntime, serverStopErr>>

\* runtime.Stop as server.Stop calls it: serviceManager.Stop.
ServerRuntimeStop == serverStopPc = "Stop" /\ sigPc # "Stop" /\ StopBegin

\* runtime.Stop has returned: currentRuntime is set to nil and the error is
\* returned. The goroutines the manager's Stop gave up waiting for go on.
ServerStopReturns ==
    /\ ~crashed
    /\ serverStopPc = "Stop"
    /\ stopPc = "returned"
    /\ currentRuntime' = FALSE
    /\ serverStopErr' = stopErr
    /\ serverStopPc' = "returned"
    /\ stopPc' = "idle" /\ stopI' = 0 /\ stopping' = 0
    /\ abandoned' = [u \in Units |->
                       [spawned |-> abandoned[u].spawned + (IF stopper[u] = "spawned" THEN 1 ELSE 0),
                        Stop |-> abandoned[u].Stop + (IF stopper[u] = "Stop" THEN 1 ELSE 0)]]
    /\ stopper' = [u \in Units |-> "none"]
    /\ fault' = [u \in Units |-> <<>>]
    /\ await' = [u \in Units |-> "none"]
    /\ awaitErr' = [u \in Units |-> Nil]
    /\ faults' = <<>> /\ stopErr' = Nil
    /\ UNCHANGED <<besideServerStop, stops>>

\* server.Run once, no signal arriving, and server.Stop called once from
\* another goroutine at any moment.
HaltNext ==
    \/ ServerRunFails
    \/ ServerRunBegin
    \/ RunBegin
    \/ \E k \in RunKinds : BootService(k)
    \/ BootFails
    \/ BootStart
    \/ RuntimeDelegate
    \/ RuntimeManagerStartEmpty
    \/ RuntimeManagerStartBegin
    \/ StartSpawn
    \/ \E u \in Registered : TaskBegin(u)
    \/ \E u \in Registered : \E err \in {Nil, StartErr(u)} : TaskStartReturns(u, err)
    \/ CloseDone
    \/ StartSelectDone
    \/ \E u \in Registered : StartSelectFail(u)
    \/ RuntimeManagerReturns
    \/ RuntimeStartReturn
    \/ BootReturns
    \/ RunReturn
    \/ ServerRunReturn
    \/ ServerStopNotRunning
    \/ ServerStopCall
    \/ ServerRuntimeStop
    \/ StopSpawn
    \/ \E u \in Registered : StopperCalls(u, Unobserved(u))
    \/ \E u \in Registered : \E err \in {Nil, StopErr(u)} : StopperReturns(u, err)
    \/ \E u \in Registered : AwaitFault(u)
    \/ \E u \in Registered : AwaitTimeout(u)
    \/ \E u \in Registered : AwaitAdd(u)
    \/ StopReturn
    \/ ServerStopReturns
    \/ \E u \in Registered : AbandonedCalls(u)
    \/ \E u \in Registered : \E err \in {Nil, StopErr(u)} : AbandonedReturns(u, err)

HaltSpec == Init /\ [][HaltNext]_vars

\* A unit of the runtime is still running: its Start has not returned.
UnitsRunning == \E u \in Registered : task[u] = "Start"

\* C38: at most one Run is in progress per server. After server.Stop has
\* returned from stopping a runtime, that runtime's Run has returned or none of
\* its units is still running; and server.Run is not admitted, that is
\* currentRuntime is not nil, as long as units of the runtime are running, a
\* unit whose Stop timed out included.
C38_OneRunAtATime ==
    /\ (serverStopPc = "returned" /\ serverStopErr # ErrNotRunning) =>
           (serverPc = "returned" \/ ~UnitsRunning)
    /\ UnitsRunning => currentRuntime

\* --------------------------------------- Reload and the configuration
\* The configuration is set up and loaded as newContainer does, the files
\* change, and Reload is called once.
ReloadConfigNext ==
    \/ \E k \in Keys : DefaultOption(k, DefaultValue)
    \/ \E content \in Contents("main") : WriteFile("main", content)
    \/ ConfigLoad
    \/ \E k \in ReloadKinds : AddService(k)
    \/ ReloadConfigFails
    \/ ReloadBegin
    \/ \E err \in {Nil, ReloadErr(reloadI)} : ReloadService(err)
    \/ ReloadReturn

ReloadConfigSpec == Init /\ [][ReloadConfigNext]_vars

\* ------------------------------------------------------------------ C39
\* C39: when config.load() fails in serviceManager.Reload, the configuration
\* loaded before stays in effect: every option that was readable before the
\* failed Reload is readable afterwards, with the same value.
C39_FailedReloadKeepsConfig ==
    [][(reloadPc = "idle" /\ reloadPc' = "returned" /\ reloadErr' = ErrConfig /\ loadErr = Nil) =>
           \A k \in Keys :
               HasOption(config.ConfigFile, k) =>
                   /\ ~IsNil(config'.ConfigFile)
                   /\ config'.ConfigFile[k] = config.ConfigFile[k]]_vars

====
